---- MODULE Spec2Model ----
(***************************************************************************)
(* Streaming event synchronization engine of MARS-Agents (frontend).       *)
(*                                                                         *)
(*   agentStore.ts       the observable state store (zustand)              *)
(*   chatStore.ts        the chat message store                            *)
(*   useAgentStream      startStream / processStream / handleEvent /       *)
(*                       stopStream (third section of useConvexSession.ts) *)
(*   useConvexSession    debounce and the store subscription that mirrors  *)
(*                       the store to the remote session                   *)
(*                                                                         *)
(* Encodings.  Text is a sequence of one-character strings.  A time is a   *)
(* reading of the logical clock `clock` (0 stands for undefined).  A       *)
(* number with one decimal is held in tenths (7.2 is 72).  A JSON value    *)
(* that may or may not be a number is a record tagged with its type.       *)
(***************************************************************************)
EXTENDS Integers, Sequences, FiniteSets, TLC

VARIABLES
    agent,          \* useAgentStore state (agentStore.ts)
    chat,           \* useChatStore state (chatStore.ts)
    progressRef,    \* progressMessageIdRef.current (0 is null)
    abortRef,       \* abortControllerRef.current: "null" | "live" | "aborted"
    pc,             \* where the async startStream is suspended
    messageId,      \* startStream's local messageId (0 before the call)
    wire,           \* text the server has still to deliver on the response body
    buffer,         \* processStream's local buffer
    clock,          \* logical time: ticks once per framed line
    handed,         \* history: the events handed to handleEvent, in order
    received,       \* history: the text read from the body so far
    statusLog,      \* history: the node-status changes, in order
    stopCalls,      \* history: stopStream calls made so far
    lastOp,         \* history: the operation the last step performed
    appended,       \* history: every entry given to addTrace, in order
    sessionRef,     \* useConvexSession sessionIdRef.current (0 is null)
    timers,         \* pending setTimeout callbacks of the debouncers
    timeoutId,      \* debounce closures' timeoutId, per field (0 is null)
    nextTimer,      \* next id setTimeout returns
    prev,           \* the subscription's prevIteration, prevDraft, ...
    remote,         \* remote writes issued, in order
    bursts,         \* history: per field, the bursts of debounced values
    mainSession,    \* MainApp sessionIdRef.current (0 is null)
    traceQueue,     \* MainApp traceQueueRef.current
    flushRef,       \* MainApp traceFlushTimeoutRef.current (0 is null)
    flushTimers,    \* pending setTimeout(flushTraces) callbacks, by id
    taskPc,         \* where the async handleStartTask is suspended
    db,             \* the rows of the Convex tables
    rowCount,       \* rows inserted so far: the next row gets id rowCount + 1
    removal,        \* history: the last sessions.remove call and its deletes
    convexTraces,   \* MainApp convexTraces, as the trace effect last saw it
    madeIn          \* history: per trace timestamp, the session it was made in

vars == <<agent, chat, progressRef, abortRef, pc, messageId, wire, buffer, clock,
          handed, received, statusLog, stopCalls, lastOp, appended,
          sessionRef, timers, timeoutId, nextTimer, prev, remote, bursts,
          mainSession, traceQueue, flushRef, flushTimers, taskPc,
          db, rowCount, removal, convexTraces, madeIn>>

storeVars  == <<agent, chat, progressRef>>
streamVars == <<abortRef, pc, messageId, wire, buffer, clock, handed, received,
                statusLog, stopCalls, lastOp>>
syncVars   == <<sessionRef, timers, timeoutId, nextTimer, prev, remote, bursts>>
appVars    == <<mainSession, traceQueue, flushRef, flushTimers, taskPc>>
dbVars     == <<db, rowCount, removal>>
mirrorVars == <<convexTraces, madeIn>>

----------------------------------------------------------------------------
(* Bounds of the model. *)

\* lines per enumerated stream
MaxLines == 2
\* stopStream calls per run
MaxStops == 2
\* addTrace calls beyond the cap in the trace specification
MaxOver == 100
\* leading addTrace calls whose entry is chosen freely
MaxFree == 2
\* store changes per behaviour of the debounce specification
MaxChanges == 4
\* readings of the clock in the flush specification (addTrace calls)
MaxAppTraces == 8
\* calls per behaviour of the session specification
MaxSessionOps == 4
\* startStream calls per behaviour of the restart specification
MaxRuns == 2

----------------------------------------------------------------------------
(* agentStore.ts *)

maxTraces == 500
maxIterations == 7
nodesTotal == 12

Undefined == [present |-> FALSE]

initialMetrics ==
    [totalTokens |-> 0, thoughtCount |-> 0, errorCount |-> 0, latencyMs |-> 0,
     nodesCompleted |-> 0, nodesTotal |-> nodesTotal]

\* a Map is a function whose domain is the set of keys present
EmptyMap == [k \in {} |-> Undefined]

initialState ==
    [isRunning |-> FALSE, activeNode |-> "null", nodes |-> EmptyMap,
     iteration |-> 0, maxIterations |-> maxIterations, scores |-> <<>>,
     isBoosted |-> FALSE, traces |-> <<>>, maxTraces |-> maxTraces,
     globalHealth |-> "healthy", currentDraft |-> "", diagram |-> "",
     metrics |-> initialMetrics, startTime |-> 0]

setRunning(s, running) == [s EXCEPT !.isRunning = running]

setActiveNode(s, node) == [s EXCEPT !.activeNode = node]

Terminal(status) == status = "success" \/ status = "error"

NodesCompleted(nodes) ==
    Cardinality({k \in DOMAIN nodes : Terminal(nodes[k].status)})

MapSet(m, k, v) == [x \in DOMAIN m \cup {k} |-> IF x = k THEN v ELSE m[x]]

\* output ?? existing?.output
Coalesce(a, b) == IF a = Undefined THEN b ELSE a

\* variant: the completed count is incremented, not recomputed
updateNodeIncrement(s, nodeId, status, output, now) ==
    LET has      == nodeId \in DOMAIN s.nodes
        existing == s.nodes[nodeId]
        node     == [id          |-> nodeId,
                     status      |-> status,
                     startTime   |-> IF status = "running" THEN now
                                     ELSE IF has THEN existing.startTime ELSE 0,
                     endTime     |-> IF status # "running" /\ status # "pending"
                                     THEN now ELSE 0,
                     output      |-> Coalesce(output,
                                        IF has THEN existing.output ELSE Undefined),
                     currentTask |-> IF has THEN existing.currentTask ELSE "",
                     feedback    |-> IF has THEN existing.feedback ELSE ""]
        nodes    == MapSet(s.nodes, nodeId, node)
    IN  IF Terminal(status)
        THEN [s EXCEPT !.nodes = nodes,
                       !.metrics.nodesCompleted = s.metrics.nodesCompleted + 1]
        ELSE [s EXCEPT !.nodes = nodes]

\* variant: a status other than running clears the start time
updateNodeDropsStart(s, nodeId, status, output, now) ==
    LET has      == nodeId \in DOMAIN s.nodes
        existing == s.nodes[nodeId]
        node     == [id          |-> nodeId,
                     status      |-> status,
                     startTime   |-> IF status = "running" THEN now ELSE 0,
                     endTime     |-> IF status # "running" /\ status # "pending"
                                     THEN now ELSE 0,
                     output      |-> Coalesce(output,
                                        IF has THEN existing.output ELSE Undefined),
                     currentTask |-> IF has THEN existing.currentTask ELSE "",
                     feedback    |-> IF has THEN existing.feedback ELSE ""]
        nodes    == MapSet(s.nodes, nodeId, node)
    IN  IF Terminal(status)
        THEN [s EXCEPT !.nodes = nodes,
                       !.metrics.nodesCompleted = NodesCompleted(nodes)]
        ELSE [s EXCEPT !.nodes = nodes]

updateNode(s, nodeId, status, output, now) ==
    LET has      == nodeId \in DOMAIN s.nodes
        existing == s.nodes[nodeId]
        node     == [id          |-> nodeId,
                     status      |-> status,
                     startTime   |-> IF status = "running" THEN now
                                     ELSE IF has THEN existing.startTime ELSE 0,
                     endTime     |-> IF status # "running" /\ status # "pending"
                                     THEN now ELSE 0,
                     output      |-> Coalesce(output,
                                        IF has THEN existing.output ELSE Undefined),
                     currentTask |-> IF has THEN existing.currentTask ELSE "",
                     feedback    |-> IF has THEN existing.feedback ELSE ""]
        nodes    == MapSet(s.nodes, nodeId, node)
    IN  IF Terminal(status)
        THEN [s EXCEPT !.nodes = nodes,
                       !.metrics.nodesCompleted = NodesCompleted(nodes)]
        ELSE [s EXCEPT !.nodes = nodes]

PendingNode(nodeId) ==
    [id |-> nodeId, status |-> "pending", startTime |-> 0, endTime |-> 0,
     output |-> Undefined, currentTask |-> "", feedback |-> ""]

\* variant: the task is put on a fresh pending node
setNodeTaskFresh(s, nodeId, task) ==
    [s EXCEPT !.nodes = MapSet(s.nodes, nodeId,
                               [PendingNode(nodeId) EXCEPT !.currentTask = task])]

setNodeTask(s, nodeId, task) ==
    LET existing == IF nodeId \in DOMAIN s.nodes THEN s.nodes[nodeId]
                    ELSE PendingNode(nodeId)
    IN  [s EXCEPT !.nodes = MapSet(s.nodes, nodeId,
                                   [existing EXCEPT !.currentTask = task])]

setNodeFeedback(s, nodeId, feedback) ==
    LET existing == IF nodeId \in DOMAIN s.nodes THEN s.nodes[nodeId]
                    ELSE PendingNode(nodeId)
    IN  [s EXCEPT !.nodes = MapSet(s.nodes, nodeId,
                                   [existing EXCEPT !.feedback = feedback])]

setIteration(s, iteration) == [s EXCEPT !.iteration = iteration]

\* variant: the new score is put first
addScoreFront(s, score) == [s EXCEPT !.scores = <<score>> \o s.scores]

\* variant: the new score replaces the sequence
addScoreReplace(s, score) == [s EXCEPT !.scores = <<score>>]

addScore(s, score) == [s EXCEPT !.scores = Append(s.scores, score)]

setBoosted(s, boosted) == [s EXCEPT !.isBoosted = boosted]

\* Array.prototype.slice(-n)
SliceLast(seq, n) ==
    IF Len(seq) <= n THEN seq ELSE SubSeq(seq, Len(seq) - n + 1, Len(seq))

\* variant: the oldest entries are kept (slice(0, maxTraces))
addTraceKeepOldest(s, trace) ==
    LET newTraces == Append(s.traces, trace)
    IN  IF Len(newTraces) > s.maxTraces
        THEN [s EXCEPT !.traces = SubSeq(newTraces, 1, s.maxTraces)]
        ELSE [s EXCEPT !.traces = newTraces]

\* variant: the new entry is put first
addTraceFront(s, trace) ==
    LET newTraces == <<trace>> \o s.traces
    IN  IF Len(newTraces) > s.maxTraces
        THEN [s EXCEPT !.traces = SliceLast(newTraces, s.maxTraces)]
        ELSE [s EXCEPT !.traces = newTraces]

addTrace(s, trace) ==
    LET newTraces == Append(s.traces, trace)
    IN  IF Len(newTraces) > s.maxTraces
        THEN [s EXCEPT !.traces = SliceLast(newTraces, s.maxTraces)]
        ELSE [s EXCEPT !.traces = newTraces]

clearTraces(s) == [s EXCEPT !.traces = <<>>]

setGlobalHealth(s, health) == [s EXCEPT !.globalHealth = health]

setCurrentDraft(s, draft) == [s EXCEPT !.currentDraft = draft]

setDiagram(s, diagram) == [s EXCEPT !.diagram = diagram]

\* variant: the metrics are replaced, not merged
updateMetricsReplace(s, updates) ==
    [s EXCEPT !.metrics =
        [f \in DOMAIN s.metrics |->
            IF f \in DOMAIN updates THEN updates[f] ELSE initialMetrics[f]]]

updateMetrics(s, updates) ==
    [s EXCEPT !.metrics =
        [f \in DOMAIN s.metrics |->
            IF f \in DOMAIN updates THEN updates[f] ELSE s.metrics[f]]]

\* variant: the error count is a flag
incrementErrorsFlag(s) == [s EXCEPT !.metrics.errorCount = 1]

incrementErrors(s) == [s EXCEPT !.metrics.errorCount = s.metrics.errorCount + 1]

\* variant: the trace list is not part of the state that is restored
resetKeepsTraces(s, now) ==
    [initialState EXCEPT !.startTime = now, !.traces = s.traces]

reset(s, now) == [initialState EXCEPT !.startTime = now]

----------------------------------------------------------------------------
(* chatStore.ts *)

initialChat == [messages |-> <<>>, isStreaming |-> FALSE, streamingMessageId |-> 0]

NoMetadata == [isStreaming |-> FALSE, iteration |-> 0, nodeId |-> ""]

\* the id addMessage returns; Math.random() ids are taken to be fresh
NewMessageId(c) == Len(c.messages) + 1

addMessage(c, role, content, metadata) ==
    [c EXCEPT !.messages = Append(c.messages,
        [id |-> NewMessageId(c), role |-> role, content |-> content,
         metadata |-> metadata])]

\* state.messages.map(msg => msg.id === id ? mapped : msg); mapped[i] is the
\* replacement of message i
MapMessages(c, id, mapped) ==
    [c EXCEPT !.messages =
        [i \in DOMAIN c.messages |->
            IF c.messages[i].id = id THEN mapped[i] ELSE c.messages[i]]]

updateMessage(c, id, content) ==
    MapMessages(c, id,
        [i \in DOMAIN c.messages |-> [c.messages[i] EXCEPT !.content = content]])

appendToMessage(c, id, content) ==
    MapMessages(c, id,
        [i \in DOMAIN c.messages |->
            [c.messages[i] EXCEPT !.content = Append(@, content)]])

setMessageMetadata(c, id, metadata) ==
    MapMessages(c, id,
        [i \in DOMAIN c.messages |->
            [c.messages[i] EXCEPT !.metadata =
                [f \in DOMAIN @ |->
                    IF f \in DOMAIN metadata THEN metadata[f] ELSE @[f]]]])

setStreaming(c, isStreaming, id) ==
    [c EXCEPT !.isStreaming = isStreaming, !.streamingMessageId = id]

clearMessages(c) ==
    [c EXCEPT !.messages = <<>>, !.isStreaming = FALSE, !.streamingMessageId = 0]

----------------------------------------------------------------------------
(* useAgentStream: the reducer.  It works on w = [agent, chat, progressRef]. *)

NODE_LABELS ==
    [entry |-> "Initializing", specialist_agent |-> "Specialist Agents",
     refiner |-> "Refining Output", critique |-> "Analyzing Quality",
     judge |-> "Scoring Response", reflection |-> "Extracting Learnings",
     consensus |-> "Building Consensus", meta_learning |-> "Adapting Strategy",
     memory_evolution |-> "Evolving Memory", loop_decision |-> "Deciding Next Step",
     self_healing |-> "Recovery Mode", diagram |-> "Generating Output",
     gemini |-> "Deep Research", web_research |-> "Web Search"]

updateProgressMessage(w, nodeName, status, details) ==
    LET label == IF nodeName \in DOMAIN NODE_LABELS THEN NODE_LABELS[nodeName]
                 ELSE nodeName
        fresh == w.progressRef = 0
        c1    == IF fresh
                 THEN addMessage(w.chat, "assistant", <<>>,
                        [NoMetadata EXCEPT !.isStreaming = TRUE, !.nodeId = nodeName])
                 ELSE w.chat
        ref   == IF fresh THEN NewMessageId(w.chat) ELSE w.progressRef
    IN  [w EXCEPT !.progressRef = ref,
                  !.chat = appendToMessage(c1, ref, <<status, label, details>>)]

Trace(nodeId, event, now, message, payload) ==
    [nodeId |-> nodeId, event |-> event, timestamp |-> now, message |-> message,
     payload |-> payload]

\* typeof x === 'number', for a JSON value x tagged with its type
IsNumber(x) == x.t \in {"number", "infinity"}

Num(tenths) == [t |-> "number", v |-> tenths]

WithAgent(w, s) == [w EXCEPT !.agent = s]

NodeStart(w, data, now) ==
    LET nodeName == data.name
        task     == IF data.task # "" THEN data.task ELSE data.metaTask
        s1       == updateNode(setActiveNode(w.agent, nodeName), nodeName,
                               "running", Undefined, now)
        s2       == IF task # "" THEN setNodeTask(s1, nodeName, task) ELSE s1
        w1       == updateProgressMessage(WithAgent(w, s2), nodeName, "start", task)
    IN  IF nodeName = "" THEN w
        ELSE WithAgent(w1, addTrace(w1.agent,
                Trace(nodeName, "start", now, <<nodeName, "started", task>>,
                      Undefined)))

\* variant: every node_end with an output sets the flag to its is_boosted
NodeEndFollowsFlag(w, data, mId, now) ==
    LET nodeName == data.name
        output   == data.output
        has      == output # Undefined
        s1       == updateNode(w.agent, nodeName, "success", output, now)
        scored   == /\ has
                    /\ Len(output.scores) > 0
                    /\ IsNumber(output.scores[Len(output.scores)])
        s2       == IF scored THEN addScore(s1, output.scores[Len(output.scores)])
                    ELSE s1
        summary  == IF scored THEN "Score" ELSE ""
        iter     == has /\ output.iteration # 0
        s3       == IF iter THEN setIteration(s2, output.iteration) ELSE s2
        c3       == IF iter
                    THEN setMessageMetadata(w.chat, mId,
                                            [iteration |-> output.iteration])
                    ELSE w.chat
        s4       == IF has /\ output.current_draft # ""
                    THEN setCurrentDraft(s3, output.current_draft) ELSE s3
        s5       == IF has /\ output.diagram # ""
                    THEN setDiagram(s4, output.diagram) ELSE s4
        s6       == IF has /\ ~output.is_boosted
                    THEN setBoosted(s5, FALSE)
                    ELSE IF has
                    THEN addTrace(setBoosted(s5, TRUE),
                            Trace("system", "custom", now,
                                  <<"RECURSIVE BOOST ACTIVATED">>, Undefined))
                    ELSE s5
        w1       == updateProgressMessage([w EXCEPT !.agent = s6, !.chat = c3],
                                          nodeName, "end", summary)
    IN  IF nodeName = "" THEN w
        ELSE WithAgent(w1, addTrace(w1.agent,
                Trace(nodeName, "end", now, <<nodeName, "completed">>, output)))

NodeEnd(w, data, mId, now) ==
    LET nodeName == data.name
        output   == data.output
        has      == output # Undefined
        s1       == updateNode(w.agent, nodeName, "success", output, now)
        scored   == /\ has
                    /\ Len(output.scores) > 0
                    /\ IsNumber(output.scores[Len(output.scores)])
        s2       == IF scored THEN addScore(s1, output.scores[Len(output.scores)])
                    ELSE s1
        summary  == IF scored THEN "Score" ELSE ""
        iter     == has /\ output.iteration # 0
        s3       == IF iter THEN setIteration(s2, output.iteration) ELSE s2
        c3       == IF iter
                    THEN setMessageMetadata(w.chat, mId,
                                            [iteration |-> output.iteration])
                    ELSE w.chat
        s4       == IF has /\ output.current_draft # ""
                    THEN setCurrentDraft(s3, output.current_draft) ELSE s3
        s5       == IF has /\ output.diagram # ""
                    THEN setDiagram(s4, output.diagram) ELSE s4
        s6       == IF has /\ output.is_boosted
                    THEN addTrace(setBoosted(s5, TRUE),
                            Trace("system", "custom", now,
                                  <<"RECURSIVE BOOST ACTIVATED">>, Undefined))
                    ELSE s5
        w1       == updateProgressMessage([w EXCEPT !.agent = s6, !.chat = c3],
                                          nodeName, "end", summary)
    IN  IF nodeName = "" THEN w
        ELSE WithAgent(w1, addTrace(w1.agent,
                Trace(nodeName, "end", now, <<nodeName, "completed">>, output)))

RunEnd(w, data, now) ==
    LET s1 == setActiveNode(setRunning(w.agent, FALSE), "null")
        c1 == IF w.progressRef # 0
              THEN setMessageMetadata(
                       appendToMessage(w.chat, w.progressRef,
                                       <<"Research completed", data.status>>),
                       w.progressRef, [isStreaming |-> FALSE])
              ELSE w.chat
    IN  [agent |-> addTrace(s1, Trace("system", "end", now,
                                <<"Research completed", data.status>>, Undefined)),
         chat |-> c1,
         progressRef |-> 0]

Metrics(w, data) ==
    LET fields  == (IF data.tokens # -1 THEN {"totalTokens"} ELSE {})
                   \cup (IF data.thoughts # -1 THEN {"thoughtCount"} ELSE {})
        updates == [f \in fields |->
                      IF f = "totalTokens" THEN data.tokens ELSE data.thoughts]
    IN  IF fields # {} THEN WithAgent(w, updateMetrics(w.agent, updates)) ELSE w

SystemTrace(w, event, now, message, payload) ==
    WithAgent(w, addTrace(w.agent, Trace("system", event, now, message, payload)))

\* the event types that start with 'custom_', with the rest of the tag
CUSTOM == [custom_note |-> "note"]

\* variant: an event of an unknown type is recorded as well
DefaultTracesAll(w, ev, now) ==
    SystemTrace(w, "custom", now,
                <<IF ev.event \in DOMAIN CUSTOM THEN CUSTOM[ev.event] ELSE ev.event>>,
                ev.data)

\* the `default` case of the switch
Default(w, ev, now) ==
    IF ev.event \in DOMAIN CUSTOM
    THEN SystemTrace(w, "custom", now, <<CUSTOM[ev.event]>>, ev.data)
    ELSE w

handleEvent(w, ev, mId, now) ==
    LET data == ev.data
    IN  CASE ev.event = "run_start" ->
               SystemTrace(w, "custom", now, <<"Starting research", data.task>>,
                           Undefined)
          [] ev.event = "node_start" -> NodeStart(w, data, now)
          [] ev.event = "node_end" -> NodeEnd(w, data, mId, now)
          [] ev.event = "token" ->
               IF data.content # ""
               THEN [w EXCEPT !.chat = appendToMessage(w.chat, mId, <<data.content>>)]
               ELSE w
          [] ev.event = "thought" ->
               IF data.content # ""
               THEN LET w1 == updateProgressMessage(w, "gemini", "progress",
                                                    data.content)
                    IN  WithAgent(w1, addTrace(w1.agent,
                            Trace("gemini", "custom", now,
                                  <<"Thinking", data.content>>, Undefined)))
               ELSE w
          [] ev.event = "draft_update" ->
               IF data.content # ""
               THEN WithAgent(w, setCurrentDraft(w.agent, data.content))
               ELSE w
          [] ev.event = "progress" ->
               IF data.message # ""
               THEN SystemTrace(updateProgressMessage(w, "system", "progress",
                                                      data.message),
                                "custom", now, <<data.message>>, Undefined)
               ELSE w
          [] ev.event = "web_search_start" ->
               LET w1 == updateProgressMessage(w, "web_research", "start", data.query)
               IN  WithAgent(w1, addTrace(w1.agent,
                       Trace("web_research", "start", now,
                             <<"Searching", data.query>>, Undefined)))
          [] ev.event = "web_search_result" ->
               LET w1 == updateProgressMessage(w, "web_research", "progress",
                                               data.title)
               IN  WithAgent(w1, addTrace(w1.agent,
                       Trace("web_research", "custom", now,
                             <<"Found", data.title>>,
                             [url |-> data.url, title |-> data.title])))
          [] ev.event = "web_search_end" ->
               LET w1 == updateProgressMessage(w, "web_research", "end", "sources found")
               IN  WithAgent(w1, addTrace(w1.agent,
                       Trace("web_research", "end", now,
                             <<"Web search complete">>, Undefined)))
          [] ev.event = "interaction_start" ->
               updateProgressMessage(w, "gemini", "start", data.interaction_id)
          [] ev.event = "metrics" -> Metrics(w, data)
          [] ev.event = "error" ->
               SystemTrace(
                   updateProgressMessage(
                       WithAgent(w, incrementErrors(
                                        setGlobalHealth(w.agent, "critical"))),
                       "system", "progress", data.message),
                   "error", now, <<"Error", data.message>>, data)
          [] ev.event = "run_end" -> RunEnd(w, data, now)
          [] OTHER -> Default(w, ev, now)

----------------------------------------------------------------------------
(* The wire: `data: <json>` lines.  The JSON text of an event is one       *)
(* character, its code; JSONParse decodes it and fails on any other text.  *)

NL == "\n"

DataPrefix == <<"d", "a", "t", "a", ":", " ">>

NoOutput == Undefined

Output(scores, iteration, draft, diag, boosted) ==
    [scores |-> scores, iteration |-> iteration, current_draft |-> draft,
     diagram |-> diag, is_boosted |-> boosted]

NodeStartEv(name, task) ==
    [event |-> "node_start", data |-> [name |-> name, task |-> task, metaTask |-> ""]]

NodeEndEv(name, output) ==
    [event |-> "node_end", data |-> [name |-> name, output |-> output]]

EventOf ==
    [A |-> [event |-> "run_start", data |-> [task |-> "t"]],
     B |-> NodeStartEv("data_processing", ""),
     C |-> NodeStartEv("judge", "score it"),
     D |-> NodeEndEv("data_processing", Output(<<Num(72)>>, 0, "", "", FALSE)),
     E |-> NodeEndEv("judge", Output(<<Num(86)>>, 2, "", "", TRUE)),
     F |-> NodeEndEv("judge", Output(<<>>, 1, "", "", FALSE)),
     G |-> NodeEndEv("judge", Output(<<>>, 3, "", "", FALSE)),
     H |-> NodeEndEv("judge", Output(<<>>, 5, "", "", FALSE)),
     I |-> NodeEndEv("refiner", Output(<<>>, 0, "draft2", "graph1", FALSE)),
     J |-> [event |-> "token", data |-> [content |-> "tok"]],
     K |-> [event |-> "thought", data |-> [content |-> "hm"]],
     L |-> [event |-> "draft_update", data |-> [content |-> "draft1"]],
     M |-> [event |-> "progress", data |-> [message |-> "working"]],
     N |-> [event |-> "web_search_start", data |-> [query |-> "q"]],
     O |-> [event |-> "web_search_result", data |-> [url |-> "u", title |-> "ti"]],
     P |-> [event |-> "web_search_end", data |-> [count |-> 1]],
     Q |-> [event |-> "interaction_start", data |-> [interaction_id |-> "i1"]],
     R |-> [event |-> "metrics", data |-> [tokens |-> 10, thoughts |-> -1]],
     S |-> [event |-> "metrics", data |-> [tokens |-> -1, thoughts |-> 2]],
     T |-> [event |-> "error", data |-> [message |-> "boom"]],
     U |-> [event |-> "run_end", data |-> [status |-> "completed"]],
     V |-> [event |-> "custom_note", data |-> [note |-> "n"]],
     W |-> [event |-> "heartbeat", data |-> [n |-> 1]],
     X |-> NodeEndEv("refiner", NoOutput),
     Y |-> NodeEndEv("judge", Output(<<Num(90), [t |-> "string"]>>, 0, "", "", FALSE)),
     Z |-> [event |-> "node_start", data |-> Undefined],
     a |-> NodeEndEv("judge",
                     Output(<<Num(50), [t |-> "infinity"]>>, 0, "", "", FALSE))]

\* JSON.parse(text): the event, or a SyntaxError
JSONParse(text) ==
    IF Len(text) = 1 /\ text[1] \in DOMAIN EventOf
    THEN [ok |-> TRUE, event |-> EventOf[text[1]]]
    ELSE [ok |-> FALSE]

\* the line the server writes for the JSON text `json`
DataLine(json) == DataPrefix \o json \o <<NL>>

Ev(code) == DataLine(<<code>>)

\* lines that do not decode: a cut JSON text, an empty one
Malformed == DataLine(<<"{", "\"">>)

Blank == <<NL>>

RECURSIVE Concat(_)
Concat(ss) == IF ss = <<>> THEN <<>> ELSE Head(ss) \o Concat(Tail(ss))

\* the lines the enumerated streams are made of
EnumLines == {Ev("C"), Ev("E"), Ev("G"), Ev("T"), Ev("U"), Malformed, Blank}

RECURSIVE SeqsUpTo(_, _)
SeqsUpTo(S, n) ==
    IF n = 0 THEN {<<>>}
    ELSE LET shorter == SeqsUpTo(S, n - 1)
         IN  shorter \cup {Append(q, x) : q \in shorter, x \in S}

\* section 8, property 7
Scenario == Concat(<<Ev("B"), Ev("D"), Ev("C"), Ev("E"), Ev("U")>>)

\* section 8, property 2: iterations 1, 3, 2, 5
IterationScenario == Concat(<<Ev("F"), Ev("G"), Ev("E"), Ev("H")>>)

\* between them one line of every kind, a malformed line and a blank line
KindsA ==
    Concat(<<Ev("A"), Ev("B"), Ev("J"), Malformed, Ev("K"), Ev("M"), Ev("D"),
             Blank, Ev("N"), Ev("O"), Ev("P"), Ev("U")>>)

KindsB ==
    Concat(<<Ev("Q"), Ev("R"), Ev("S"), Ev("V"), Ev("W"), Ev("I"), Ev("X"),
             Ev("Y"), Ev("T"), Ev("L")>>)

Streams ==
    {Concat(q) : q \in SeqsUpTo(EnumLines, MaxLines)}
        \cup {Scenario, IterationScenario, KindsA, KindsB}

----------------------------------------------------------------------------
(* processStream: the frame loop *)

\* String.prototype.split('\n'): the pieces between the newlines
Split(text) ==
    LET cuts == {i \in 1..Len(text) : text[i] = NL} \cup {Len(text) + 1}
        nth[k \in 1..Cardinality(cuts)] ==
            CHOOSE c \in cuts : Cardinality({d \in cuts : d < c}) = k - 1
    IN  [k \in 1..Cardinality(cuts) |->
            SubSeq(text, IF k = 1 THEN 1 ELSE nth[k - 1] + 1, nth[k] - 1)]

\* variant: the buffered partial line is forgotten (buffer = chunk)
FrameChunkOnly(buf, chunk) ==
    LET pieces == Split(chunk)
    IN  [lines  |-> SubSeq(pieces, 1, Len(pieces) - 1),
         buffer |-> pieces[Len(pieces)]]

\* buffer += chunk; lines = buffer.split('\n'); buffer = lines.pop() || ''
Frame(buf, chunk) ==
    LET pieces == Split(buf \o chunk)
    IN  [lines  |-> SubSeq(pieces, 1, Len(pieces) - 1),
         buffer |-> pieces[Len(pieces)]]

StartsWith(line, prefix) ==
    Len(line) >= Len(prefix) /\ SubSeq(line, 1, Len(prefix)) = prefix

\* line.slice(6)
Slice(line, n) == SubSeq(line, n + 1, Len(line))

\* variant: the SyntaxError is not caught inside the loop
OnParseErrorThrows(acc) == [acc EXCEPT !.thrown = TRUE]

\* what JSON.parse throwing does to the loop: caught, the line is dropped.
\* acc.thrown stands for an exception leaving the loop; none does.
OnParseError(acc) == acc

\* handleEvent throws a TypeError: the JSON text has no data member and the
\* case of the event reads a member of data before it changes anything
Throws(ev) ==
    /\ ev.data = Undefined
    /\ ev.event \in {"run_start", "node_start", "node_end", "token", "thought",
                      "draft_update", "progress", "web_search_start",
                      "web_search_result", "web_search_end", "interaction_start",
                      "metrics"}

\* the node whose status an event changed, if any
StatusChanges(before, after, now) ==
    LET changed == {k \in DOMAIN after :
                      k \notin DOMAIN before \/ before[k].status # after[k].status}
    IN  IF changed = {} THEN <<>>
        ELSE LET k == CHOOSE k \in changed : TRUE
             IN  <<[nodeId |-> k, status |-> after[k].status, at |-> now]>>

\* the body of `for (const line of lines)` for one line; acc carries the
\* stores and the histories
ProcessLine(acc, line, mId) ==
    LET now    == acc.clock + 1
        ticked == [acc EXCEPT !.clock = now]
        parsed == JSONParse(Slice(line, Len(DataPrefix)))
        w1     == handleEvent(acc.w, parsed.event, mId, now)
    IN  IF acc.thrown THEN acc
        ELSE IF ~StartsWith(line, DataPrefix) THEN ticked
        ELSE IF ~parsed.ok THEN OnParseError(ticked)
        ELSE IF Throws(parsed.event) THEN OnParseError(ticked)
        ELSE [ticked EXCEPT
                !.w = w1,
                !.handed = Append(acc.handed, parsed.event),
                !.statusLog = acc.statusLog \o
                    StatusChanges(acc.w.agent.nodes, w1.agent.nodes, now)]

RECURSIVE ProcessLines(_, _, _)
ProcessLines(acc, lines, mId) ==
    IF lines = <<>> THEN acc
    ELSE ProcessLines(ProcessLine(acc, Head(lines), mId), Tail(lines), mId)

----------------------------------------------------------------------------
(* useAgentStream: startStream, processStream, stopStream *)

World == [agent |-> agent, chat |-> chat, progressRef |-> progressRef]

SetWorld(w) ==
    /\ agent' = w.agent
    /\ chat' = w.chat
    /\ progressRef' = w.progressRef

Op(name) == [op |-> name, arg |-> ""]

OpArg(name, arg) == [op |-> name, arg |-> arg]

\* variant: the `finally` does not clear the running flag
FinallyKeepsRunning(w) ==
    [w EXCEPT !.agent = setActiveNode(w.agent, "null"),
              !.chat = setStreaming(w.chat, FALSE, 0)]

\* variant: the `finally` does not clear the active node
FinallyKeepsNode(w) ==
    [w EXCEPT !.agent = setRunning(w.agent, FALSE),
              !.chat = setStreaming(w.chat, FALSE, 0)]

\* the `finally` of processStream
Finally(w) ==
    [w EXCEPT !.agent = setActiveNode(setRunning(w.agent, FALSE), "null"),
              !.chat = setStreaming(w.chat, FALSE, 0)]

\* variant: the `catch` leaves the assistant message as it was streamed
CatchKeepsContent(w, mId, text) ==
    [w EXCEPT !.agent = setGlobalHealth(setRunning(w.agent, FALSE), "critical"),
              !.chat = setStreaming(w.chat, FALSE, 0)]

\* the `catch` of startStream; text is the content given to updateMessage
Catch(w, mId, text) ==
    [w EXCEPT !.agent = setGlobalHealth(setRunning(w.agent, FALSE), "critical"),
              !.chat = setStreaming(updateMessage(w.chat, mId, text), FALSE, 0)]

CancelledText == << <<"Research cancelled.">> >>

\* variant: a transport error is reported with the text of a cancellation
ErrorTextAsCancelled(reason) == CancelledText

\* the text for any other error; reason stands for error.message
ErrorText(reason) == << <<"Error connecting to backend", reason>> >>

\* startStream up to its first await (the fetch)
StartBody ==
    /\ LET now == clock + 1
           s1  == setRunning(reset(agent, now), TRUE)
           mId == NewMessageId(chat)
           c1  == setStreaming(
                      addMessage(chat, "assistant", <<>>,
                          [NoMetadata EXCEPT !.isStreaming = TRUE, !.iteration = 1]),
                      TRUE, mId)
       IN  /\ agent' = addTrace(s1, Trace("system", "custom", now,
                                          <<"Using backend">>, Undefined))
           /\ chat' = c1
           /\ messageId' = mId
           /\ clock' = now
    /\ progressRef' = 0
    /\ abortRef' = "live"
    /\ pc' = "fetch"
    /\ buffer' = <<>>
    /\ wire' = <<>>
    /\ handed' = <<>>
    /\ received' = <<>>
    /\ statusLog' = <<>>

\* the hook used on its own.  A behaviour holds one run: the controller is
\* started once.
StartStream ==
    /\ pc = "idle"
    /\ StartBody
    /\ lastOp' = Op("startStream")
    /\ UNCHANGED <<stopCalls, appended>>
    /\ UNCHANGED syncVars
    /\ UNCHANGED appVars
    /\ UNCHANGED dbVars
    /\ UNCHANGED mirrorVars

\* variant: the request is made without the signal
DeliverableAlways(ref) == TRUE

\* the request carries abortControllerRef.current.signal: the fetch and the
\* body deliver only while that controller has not been aborted
Deliverable(ref) == ref = "live"

\* the fetch resolves with an ok response whose body will carry one of the
\* given streams
FetchFrom(streams) ==
    /\ pc = "fetch"
    /\ Deliverable(abortRef)
    /\ \E stream \in streams : wire' = stream
    /\ pc' = "read"
    /\ lastOp' = Op("fetchOk")
    /\ UNCHANGED <<agent, chat, progressRef, abortRef, messageId, buffer, clock,
                   handed, received, statusLog, stopCalls, appended>>
    /\ UNCHANGED syncVars
    /\ UNCHANGED appVars
    /\ UNCHANGED dbVars
    /\ UNCHANGED mirrorVars

\* the fetch resolves with an ok response that has a body
FetchOk == FetchFrom(Streams)

\* the fetch rejects, the response is not ok, or it has no body
FetchFail ==
    /\ pc = "fetch"
    /\ Deliverable(abortRef)
    /\ \E reason \in {"network", "http", "no body"} :
          SetWorld(Catch(World, messageId, ErrorText(reason)))
    /\ pc' = "returned"
    /\ lastOp' = Op("fetchFail")
    /\ UNCHANGED <<abortRef, messageId, wire, buffer, clock, handed, received,
                   statusLog, stopCalls, appended>>
    /\ UNCHANGED syncVars
    /\ UNCHANGED appVars
    /\ UNCHANGED dbVars
    /\ UNCHANGED mirrorVars

\* reader.read() resolves with the next n characters; every complete line
\* is processed before the next read
ReadN(n) ==
    /\ pc = "read"
    /\ Deliverable(abortRef)
    /\ n \in 1..Len(wire)
    /\ LET chunk  == SubSeq(wire, 1, n)
           framed == Frame(buffer, chunk)
           acc    == ProcessLines(
                          [w |-> World, clock |-> clock, handed |-> handed,
                           statusLog |-> statusLog, thrown |-> FALSE],
                          framed.lines, messageId)
        IN  /\ wire' = SubSeq(wire, n + 1, Len(wire))
            /\ received' = received \o chunk
            /\ buffer' = framed.buffer
            /\ clock' = acc.clock
            /\ handed' = acc.handed
            /\ statusLog' = acc.statusLog
            /\ IF acc.thrown
               THEN /\ SetWorld(Catch(Finally(acc.w), messageId,
                                      ErrorText("exception")))
                    /\ pc' = "returned"
               ELSE /\ SetWorld(acc.w)
                    /\ pc' = "read"
            /\ lastOp' = OpArg("readChunk",
                               IF buffer # <<>> /\ Len(framed.lines) > 0
                               THEN "joined" ELSE "")
    /\ UNCHANGED <<abortRef, messageId, stopCalls, appended>>
    /\ UNCHANGED syncVars
    /\ UNCHANGED appVars
    /\ UNCHANGED dbVars
    /\ UNCHANGED mirrorVars

ReadChunk == \E n \in 1..Len(wire) : ReadN(n)

\* reader.read() resolves with done
ReadDone ==
    /\ pc = "read"
    /\ Deliverable(abortRef)
    /\ wire = <<>>
    /\ SetWorld(Finally(World))
    /\ pc' = "returned"
    /\ lastOp' = Op("readDone")
    /\ UNCHANGED <<abortRef, messageId, wire, buffer, clock, handed, received,
                   statusLog, stopCalls, appended>>
    /\ UNCHANGED syncVars
    /\ UNCHANGED appVars
    /\ UNCHANGED dbVars
    /\ UNCHANGED mirrorVars

\* reader.read() rejects with a network error
ReadError ==
    /\ pc = "read"
    /\ Deliverable(abortRef)
    /\ SetWorld(Catch(Finally(World), messageId, ErrorText("network")))
    /\ pc' = "returned"
    /\ lastOp' = Op("readError")
    /\ UNCHANGED <<abortRef, messageId, wire, buffer, clock, handed, received,
                   statusLog, stopCalls, appended>>
    /\ UNCHANGED syncVars
    /\ UNCHANGED appVars
    /\ UNCHANGED dbVars
    /\ UNCHANGED mirrorVars

\* variant: every stopStream call also posts a message
StopEffectsAnnounce(w) ==
    [w EXCEPT !.agent = setRunning(w.agent, FALSE),
              !.chat = setStreaming(
                           addMessage(w.chat, "system", CancelledText, NoMetadata),
                           FALSE, 0)]

\* what stopStream does to the stores after abortControllerRef.current?.abort()
StopEffects(w) ==
    [w EXCEPT !.agent = setRunning(w.agent, FALSE),
              !.chat = setStreaming(w.chat, FALSE, 0)]

StopStream ==
    /\ pc # "idle"
    /\ stopCalls < MaxStops
    /\ stopCalls' = stopCalls + 1
    /\ abortRef' = IF abortRef = "null" THEN "null" ELSE "aborted"
    /\ SetWorld(StopEffects(World))
    /\ lastOp' = Op("stopStream")
    /\ UNCHANGED <<pc, messageId, wire, buffer, clock, handed, received,
                   statusLog, appended>>
    /\ UNCHANGED syncVars
    /\ UNCHANGED appVars
    /\ UNCHANGED dbVars
    /\ UNCHANGED mirrorVars

\* the pending fetch or read rejects with an AbortError
AbortRejected ==
    /\ pc \in {"fetch", "read"}
    /\ abortRef = "aborted"
    /\ SetWorld(Catch(IF pc = "read" THEN Finally(World) ELSE World,
                      messageId, CancelledText))
    /\ pc' = "returned"
    /\ lastOp' = Op("abortRejected")
    /\ UNCHANGED <<abortRef, messageId, wire, buffer, clock, handed, received,
                   statusLog, stopCalls, appended>>
    /\ UNCHANGED syncVars
    /\ UNCHANGED appVars
    /\ UNCHANGED dbVars
    /\ UNCHANGED mirrorVars

Init ==
    /\ agent = initialState
    /\ chat = initialChat
    /\ progressRef = 0
    /\ abortRef = "null"
    /\ pc = "idle"
    /\ messageId = 0
    /\ wire = <<>>
    /\ buffer = <<>>
    /\ clock = 0
    /\ handed = <<>>
    /\ received = <<>>
    /\ statusLog = <<>>
    /\ stopCalls = 0
    /\ lastOp = Op("init")
    /\ appended = <<>>
    /\ sessionRef = 0
    /\ timers = {}
    /\ timeoutId = [f \in {"draft", "diagram"} |-> 0]
    /\ nextTimer = 1
    /\ prev = [iteration |-> initialState.iteration,
                draft |-> initialState.currentDraft,
                diagram |-> initialState.diagram,
                health |-> initialState.globalHealth,
                boosted |-> initialState.isBoosted]
    /\ remote = <<>>
    /\ bursts = [f \in {"draft", "diagram"} |-> <<>>]
    /\ mainSession = 0
    /\ traceQueue = <<>>
    /\ flushRef = 0
    /\ flushTimers = {}
    /\ taskPc = "idle"
    /\ db = {}
    /\ rowCount = 0
    /\ removal = [id |-> 0, deleted |-> <<>>]
    /\ convexTraces = Undefined
    /\ madeIn = <<>>

Next ==
    \/ StartStream
    \/ FetchOk
    \/ FetchFail
    \/ ReadChunk
    \/ ReadDone
    \/ ReadError
    \/ StopStream
    \/ AbortRejected

Spec == Init /\ [][Next]_vars

----------------------------------------------------------------------------
(* Properties of the frame loop and the lifecycle, under Spec *)

\* the events a text yields when it arrives as one chunk
OneChunk(text) ==
    ProcessLines([w |-> World, clock |-> 0, handed |-> <<>>, statusLog |-> <<>>,
                  thrown |-> FALSE],
                 Frame(<<>>, text).lines, messageId).handed

\* C1: however the stream is cut into chunks, the events handed to
\* handleEvent are those the same text yields as a single chunk.
C1_ChunkingIndependent == handed = OneChunk(received)

\* the whole five-line scenario has arrived, its last read completing a line
\* that an earlier chunk had left cut
C1_Witness ==
    /\ received = Scenario
    /\ lastOp = OpArg("readChunk", "joined")
    /\ Len(handed) = 5

\* the complete lines of a text
CompleteLines(text) ==
    LET pieces == Split(text) IN SubSeq(pieces, 1, Len(pieces) - 1)

\* the events of the well-formed data lines of a text, in order
RECURSIVE Decodable(_)
Decodable(lines) ==
    IF lines = <<>> THEN <<>>
    ELSE LET line == Head(lines)
             json == SubSeq(line, Len(DataPrefix) + 1, Len(line))
         IN  (IF StartsWith(line, DataPrefix) /\ JSONParse(json).ok
              THEN <<JSONParse(json).event>> ELSE <<>>)
             \o Decodable(Tail(lines))

C2_AllWellFormedApplied == handed = Decodable(CompleteLines(received))

C2_DroppedLineChangesNothing ==
    (received' # received /\ handed' = handed)
        => (agent' = agent /\ chat' = chat /\ progressRef' = progressRef
            /\ pc' = "read")

\* C2: a read that hands over no event (its lines are malformed, blank or
\* incomplete) changes no store state and leaves the loop reading, and every
\* well-formed line, before or after a malformed one, is decoded and applied.
C2_MalformedNeverAborts ==
    [](C2_AllWellFormedApplied) /\ [][C2_DroppedLineChangesNothing]_vars

C2_Witness ==
    /\ received = Malformed \o Ev("E")
    /\ handed = <<EventOf.E>>
    /\ agent.isBoosted
    /\ agent.isRunning
    /\ pc = "read"

NonDecreasing(seq) ==
    \A i \in 1..Len(seq) : \A j \in i..Len(seq) : seq[i] <= seq[j]

\* the line stamps of the trace entries, in list order
TraceTimes == [i \in 1..Len(agent.traces) |-> agent.traces[i].timestamp]

\* the line stamps of the node-status changes, in the order they were made
ChangeTimes == [i \in 1..Len(statusLog) |-> statusLog[i].at]

\* C3: the trace list and the node-status changes are in framing order: an
\* entry never precedes an entry of a line framed earlier.
C3_FramingOrder ==
    /\ NonDecreasing(TraceTimes)
    /\ NonDecreasing(ChangeTimes)

C3_Witness ==
    /\ Len(agent.traces) >= 4
    /\ agent.traces[2].timestamp < agent.traces[4].timestamp
    /\ Len(statusLog) >= 3
    /\ statusLog[1].at < statusLog[3].at

\* C4: within a run the stored iteration never decreases.
C4_IterationMonotone ==
    [][messageId' = messageId => agent'.iteration >= agent.iteration]_vars

\* C8: stopStream on a run that is already aborted or has already returned
\* changes nothing in the stores or in the run.
C8_AbortIdempotent ==
    [][(stopCalls' # stopCalls /\ (abortRef = "aborted" \/ pc = "returned"))
         => UNCHANGED <<agent, chat, progressRef, pc, messageId, buffer>>]_vars

C8_Witness ==
    /\ stopCalls = 2
    /\ lastOp = Op("stopStream")
    /\ abortRef = "aborted"
    /\ pc = "returned"
    /\ chat.messages[messageId].content = CancelledText

\* C9: once the run's controller is aborted nothing more is read from the
\* body and no event is applied to the store.
C9_NothingAfterAbort ==
    [][abortRef = "aborted"
         => /\ received' = received
            /\ handed' = handed
            /\ agent'.nodes = agent.nodes
            /\ agent'.traces = agent.traces
            /\ agent'.scores = agent.scores
            /\ agent'.iteration = agent.iteration]_vars

\* cancelled with events applied and more of the stream undelivered
C9_Witness ==
    /\ abortRef = "aborted"
    /\ pc = "returned"
    /\ Len(handed) > 0
    /\ wire # <<>>

Kind(t) == <<t.nodeId, t.event>>

\* C10: the five events of the end-to-end scenario, applied to a fresh run.
C10_EndToEnd ==
    received = Scenario =>
        /\ agent.scores = <<Num(72), Num(86)>>
        /\ agent.iteration = 2
        /\ agent.isBoosted
        /\ DOMAIN agent.nodes = {"data_processing", "judge"}
        /\ \A k \in DOMAIN agent.nodes : agent.nodes[k].status = "success"
        /\ ~agent.isRunning
        /\ [i \in 1..Len(agent.traces) |-> Kind(agent.traces[i])] =
              << <<"system", "custom">>,
                 <<"data_processing", "start">>, <<"data_processing", "end">>,
                 <<"judge", "start">>, <<"system", "custom">>, <<"judge", "end">>,
                 <<"system", "end">> >>
        /\ agent.traces[1].message = <<"Using backend">>
        /\ agent.traces[5].message = <<"RECURSIVE BOOST ACTIVATED">>

C10_Witness ==
    /\ received = Scenario
    /\ pc = "returned"
    /\ abortRef = "live"
    /\ agent.globalHealth = "healthy"

----------------------------------------------------------------------------
(* The store driven directly: SpecStore calls the node operations, in any  *)
(* order, all within one reading of the clock.                             *)

StoreNodes == {"entry", "refiner", "critique", "judge"}

\* the statuses updateNode is called with
NodeStatuses == {"running", "success", "error", "skipped"}

\* the nodes given a task
TaskNodes == {"entry"}

UpdateNodeOp ==
    /\ \E n \in StoreNodes, st \in NodeStatuses :
          /\ agent' = updateNode(agent, n, st, Undefined, clock + 1)
          /\ lastOp' = OpArg("updateNode", st)
    /\ UNCHANGED <<chat, progressRef, appended>>
    /\ UNCHANGED <<abortRef, pc, messageId, wire, buffer, clock, handed, received,
                   statusLog, stopCalls>>
    /\ UNCHANGED syncVars
    /\ UNCHANGED appVars
    /\ UNCHANGED dbVars
    /\ UNCHANGED mirrorVars

SetNodeTaskOp ==
    /\ \E n \in TaskNodes :
          /\ agent' = setNodeTask(agent, n, "task1")
          /\ lastOp' = Op("setNodeTask")
    /\ UNCHANGED <<chat, progressRef, appended>>
    /\ UNCHANGED <<abortRef, pc, messageId, wire, buffer, clock, handed, received,
                   statusLog, stopCalls>>
    /\ UNCHANGED syncVars
    /\ UNCHANGED appVars
    /\ UNCHANGED dbVars
    /\ UNCHANGED mirrorVars

StoreNext == UpdateNodeOp \/ SetNodeTaskOp

SpecStore == Init /\ [][StoreNext]_vars

CountTerminal(nodes) ==
    Cardinality({k \in DOMAIN nodes : nodes[k].status \in {"success", "error"}})

\* C5: right after updateNode has moved a node to success or error,
\* metrics.nodesCompleted is the number of nodes now in success or error.
C5_CompletedRecomputed ==
    (lastOp.op = "updateNode" /\ lastOp.arg \in {"success", "error"})
        => agent.metrics.nodesCompleted = CountTerminal(agent.nodes)

\* three nodes in success and one in error, the last call a termination
C5_Witness ==
    /\ lastOp.op = "updateNode"
    /\ lastOp.arg = "success"
    /\ DOMAIN agent.nodes = StoreNodes
    /\ Cardinality({k \in StoreNodes : agent.nodes[k].status = "success"}) = 3
    /\ Cardinality({k \in StoreNodes : agent.nodes[k].status = "error"}) = 1
    /\ agent.metrics.nodesCompleted = 4

----------------------------------------------------------------------------
(* SpecTrace calls addTrace again and again, past the cap. *)

AddTraceOp ==
    /\ Len(appended) < maxTraces + MaxOver
    /\ \E n \in (IF Len(appended) < MaxFree THEN {"system", "judge"}
                 ELSE {"system"}) :
          LET entry == Trace(n, "custom", clock + 1, <<"entry">>, Undefined)
          IN  /\ agent' = addTrace(agent, entry)
              /\ appended' = Append(appended, entry)
    /\ clock' = clock + 1
    /\ lastOp' = Op("addTrace")
    /\ UNCHANGED <<chat, progressRef>>
    /\ UNCHANGED <<abortRef, pc, messageId, wire, buffer, handed, received,
                   statusLog, stopCalls>>
    /\ UNCHANGED syncVars
    /\ UNCHANGED appVars
    /\ UNCHANGED dbVars
    /\ UNCHANGED mirrorVars

TraceNext == AddTraceOp

SpecTrace == Init /\ [][TraceNext]_vars

Min(a, b) == IF a <= b THEN a ELSE b

\* C6: the trace list holds at most maxTraces entries: the most recent
\* min(n, maxTraces) of the n appended, in their order.
C6_TraceBound ==
    LET n == Len(appended)
        k == Len(agent.traces)
    IN  /\ k <= 500
        /\ k = Min(n, 500)
        /\ \A i \in 1..k : agent.traces[i] = appended[n - k + i]

\* 600 entries appended: the list is entries 101 to 600
C6_Witness ==
    /\ Len(appended) = 600
    /\ Len(agent.traces) = 500
    /\ agent.traces[1] = appended[101]
    /\ agent.traces[500] = appended[600]

----------------------------------------------------------------------------
(* useConvexSession: debounce and the store subscription.  SpecDebounce    *)
(* creates the session, changes the draft and the diagram of the store and *)
(* lets the timers fire.  A timer fires when its quiet window has elapsed, *)
(* so a change falls within the window of the previous one exactly when    *)
(* that one's timer is still pending.                                      *)

DebouncedFields == {"draft", "diagram"}

\* variant: the pending timeout is not cleared
DebounceNoClear(st, f, value) ==
    [st EXCEPT !.timers = st.timers
                   \cup {[id |-> st.nextTimer, field |-> f, value |-> value]},
               !.timeoutId[f] = st.nextTimer,
               !.nextTimer = st.nextTimer + 1]

\* a call of the debounced function of field f: clearTimeout(timeoutId),
\* timeoutId = setTimeout(() => fn(value), delay).  st = [timers, timeoutId,
\* nextTimer]
Debounce(st, f, value) ==
    [st EXCEPT !.timers = {t \in st.timers : t.id # st.timeoutId[f]}
                   \cup {[id |-> st.nextTimer, field |-> f, value |-> value]},
               !.timeoutId[f] = st.nextTimer,
               !.nextTimer = st.nextTimer + 1]

Write(op, value) == [op |-> op, id |-> sessionRef, value |-> value]

TimerPending(f) == \E t \in timers : t.field = f

\* history: a debounced value joins the open burst of its field, or starts one
Burst(b, f, value) ==
    IF TimerPending(f)
    THEN [b EXCEPT ![f][Len(b[f])] = Append(b[f][Len(b[f])], value)]
    ELSE [b EXCEPT ![f] = Append(b[f], <<value>>)]

\* the callback given to useAgentStore.subscribe, run on the new state s
Subscriber(s) ==
    IF sessionRef = 0
    THEN UNCHANGED <<timers, timeoutId, nextTimer, prev, remote, bursts>>
    ELSE LET iter    == s.iteration # prev.iteration /\ s.iteration > 0
             draft   == s.currentDraft # prev.draft /\ s.currentDraft # ""
             diag    == s.diagram # prev.diagram /\ s.diagram # ""
             health  == s.globalHealth # prev.health
             boosted == s.isBoosted # prev.boosted
             st0     == [timers |-> timers, timeoutId |-> timeoutId,
                         nextTimer |-> nextTimer]
             st1     == IF draft THEN Debounce(st0, "draft", s.currentDraft)
                        ELSE st0
             st2     == IF diag THEN Debounce(st1, "diagram", s.diagram) ELSE st1
             b1      == IF draft THEN Burst(bursts, "draft", s.currentDraft)
                        ELSE bursts
         IN  /\ prev' = [iteration |-> IF iter THEN s.iteration ELSE prev.iteration,
                         draft     |-> IF draft THEN s.currentDraft ELSE prev.draft,
                         diagram   |-> IF diag THEN s.diagram ELSE prev.diagram,
                         health    |-> IF health THEN s.globalHealth ELSE prev.health,
                         boosted   |-> IF boosted THEN s.isBoosted ELSE prev.boosted]
             /\ remote' = remote
                    \o (IF iter THEN <<Write("updateIteration", s.iteration)>>
                        ELSE <<>>)
                    \o (IF health THEN <<Write("updateHealth", s.globalHealth)>>
                        ELSE <<>>)
                    \o (IF boosted THEN <<Write("setBoosted", s.isBoosted)>>
                        ELSE <<>>)
             /\ timers' = st2.timers
             /\ timeoutId' = st2.timeoutId
             /\ nextTimer' = st2.nextTimer
             /\ bursts' = IF diag THEN Burst(b1, "diagram", s.diagram) ELSE b1

\* startSession: createSession resolves and the id is kept
StartSession ==
    /\ sessionRef = 0
    /\ sessionRef' = 1
    /\ lastOp' = Op("startSession")
    /\ UNCHANGED <<timers, timeoutId, nextTimer, prev, remote, bursts>>
    /\ UNCHANGED storeVars
    /\ UNCHANGED <<appended, abortRef, pc, messageId, wire, buffer, clock, handed,
                   received, statusLog, stopCalls>>
    /\ UNCHANGED appVars
    /\ UNCHANGED dbVars
    /\ UNCHANGED mirrorVars

DraftValues == {"draft1", "draft2", "draft3"}

DiagramValues == {"graph1", "graph2"}

\* the debounced changes made so far
Changes ==
    LET Total(f) == IF bursts[f] = <<>> THEN 0
                    ELSE Len(Concat(bursts[f]))
    IN  Total("draft") + Total("diagram")

SetDraft ==
    /\ Changes < MaxChanges
    /\ \E v \in DraftValues :
          /\ agent' = setCurrentDraft(agent, v)
          /\ Subscriber(agent')
    /\ lastOp' = Op("setCurrentDraft")
    /\ UNCHANGED <<sessionRef, chat, progressRef, appended>>
    /\ UNCHANGED <<abortRef, pc, messageId, wire, buffer, clock, handed, received,
                   statusLog, stopCalls>>
    /\ UNCHANGED appVars
    /\ UNCHANGED dbVars
    /\ UNCHANGED mirrorVars

SetDiagram ==
    /\ Changes < MaxChanges
    /\ \E v \in DiagramValues :
          /\ agent' = setDiagram(agent, v)
          /\ Subscriber(agent')
    /\ lastOp' = Op("setDiagram")
    /\ UNCHANGED <<sessionRef, chat, progressRef, appended>>
    /\ UNCHANGED <<abortRef, pc, messageId, wire, buffer, clock, handed, received,
                   statusLog, stopCalls>>
    /\ UNCHANGED appVars
    /\ UNCHANGED dbVars
    /\ UNCHANGED mirrorVars

\* syncDraft / syncDiagram, called by a timer
SyncField(f, value) ==
    IF sessionRef = 0 THEN remote
    ELSE Append(remote, Write(IF f = "draft" THEN "updateDraft" ELSE "updateDiagram",
                              value))

\* a pending timeout fires
TimerFire ==
    /\ \E t \in timers :
          /\ timers' = timers \ {t}
          /\ remote' = SyncField(t.field, t.value)
    /\ lastOp' = Op("timer")
    /\ UNCHANGED <<sessionRef, timeoutId, nextTimer, prev, bursts>>
    /\ UNCHANGED storeVars
    /\ UNCHANGED <<appended, abortRef, pc, messageId, wire, buffer, clock, handed,
                   received, statusLog, stopCalls>>
    /\ UNCHANGED appVars
    /\ UNCHANGED dbVars
    /\ UNCHANGED mirrorVars

DebounceNext == StartSession \/ SetDraft \/ SetDiagram \/ TimerFire

SpecDebounce == Init /\ [][DebounceNext]_vars

\* the values written to the remote session by operation op, in order
RECURSIVE Written(_, _)
Written(writes, op) ==
    IF writes = <<>> THEN <<>>
    ELSE (IF Head(writes).op = op THEN <<Head(writes).value>> ELSE <<>>)
         \o Written(Tail(writes), op)

\* the bursts of field f whose quiet window has elapsed
Closed(f) ==
    IF TimerPending(f) THEN SubSeq(bursts[f], 1, Len(bursts[f]) - 1)
    ELSE bursts[f]

LastOfEach(bs) == [i \in 1..Len(bs) |-> bs[i][Len(bs[i])]]

\* C7: each burst of changes of a debounced field yields one remote write,
\* carrying the last value of the burst, once its quiet window has elapsed.
C7_DebounceCoalesces ==
    /\ Written(remote, "updateDraft") = LastOfEach(Closed("draft"))
    /\ Written(remote, "updateDiagram") = LastOfEach(Closed("diagram"))

\* three draft changes within the window, then the one write of the last
C7_Witness ==
    /\ bursts["draft"] = << <<"draft1", "draft2", "draft3">> >>
    /\ ~TimerPending("draft")
    /\ Written(remote, "updateDraft") = <<"draft3">>

----------------------------------------------------------------------------
(* MainApp (App with the remote mirror): handleStartTask, the store        *)
(* subscription that queues new trace entries and flushTraces.  SpecFlush  *)
(* starts one task, appends trace entries to the store as the events of a  *)
(* run do, lets the flush timers fire and lets the user leave the session. *)
(* The outcome of an append-trace write is not observed by the program     *)
(* (the promise persistTrace returns is dropped), so it is not part of the *)
(* state.                                                                  *)

\* traceQueueRef.current.splice(0, 5)
FlushBatch == 5

\* remote writes of MainApp carry the session of sessionIdRef.current
AppWrite(session, op, value) == [op |-> op, id |-> session, value |-> value]

\* the callback MainApp gives to useAgentStore.subscribe, for a change of the
\* trace list from `before` to `after`; st = [queue, ref, timers]
AppSubscriber(session, st, before, after) ==
    IF session # 0 /\ Len(after) > Len(before)
    THEN [queue  |-> st.queue \o SubSeq(after, Len(before) + 1, Len(after)),
          ref    |-> IF st.ref = 0 THEN 1 ELSE st.ref,
          timers |-> IF st.ref = 0 THEN st.timers \cup {1} ELSE st.timers]
    ELSE st

AppState == [queue |-> traceQueue, ref |-> flushRef, timers |-> flushTimers]

SetAppState(st) ==
    /\ traceQueue' = st.queue
    /\ flushRef' = st.ref
    /\ flushTimers' = st.timers

\* handleStartTask up to its first await: createSession is issued
HandleStartTask ==
    /\ taskPc = "idle"
    /\ taskPc' = "creating"
    /\ remote' = Append(remote, AppWrite(0, "sessions.create", "task"))
    /\ lastOp' = Op("handleStartTask")
    /\ UNCHANGED storeVars
    /\ UNCHANGED <<abortRef, pc, messageId, wire, buffer, clock, handed, received,
                   statusLog, stopCalls, appended>>
    /\ UNCHANGED <<sessionRef, timers, timeoutId, nextTimer, prev, bursts>>
    /\ UNCHANGED <<mainSession, traceQueue, flushRef, flushTimers>>
    /\ UNCHANGED dbVars
    /\ UNCHANGED mirrorVars

\* createSession resolves: the id is kept, the user message is added and
\* persistMessage issues its write
CreateResolves ==
    /\ taskPc = "creating"
    /\ taskPc' = "persisting"
    /\ mainSession' = 1
    /\ chat' = addMessage(chat, "user", << <<"task">> >>, NoMetadata)
    /\ remote' = Append(remote, AppWrite(1, "messages.add", "task"))
    /\ lastOp' = Op("createResolves")
    /\ UNCHANGED <<agent, progressRef>>
    /\ UNCHANGED <<abortRef, pc, messageId, wire, buffer, clock, handed, received,
                   statusLog, stopCalls, appended>>
    /\ UNCHANGED <<sessionRef, timers, timeoutId, nextTimer, prev, bursts>>
    /\ UNCHANGED <<traceQueue, flushRef, flushTimers>>
    /\ UNCHANGED dbVars
    /\ UNCHANGED mirrorVars

\* createSession rejects: the rejection leaves handleStartTask
CreateRejects ==
    /\ taskPc = "creating"
    /\ taskPc' = "failed"
    /\ lastOp' = Op("createRejects")
    /\ UNCHANGED storeVars
    /\ UNCHANGED <<abortRef, pc, messageId, wire, buffer, clock, handed, received,
                   statusLog, stopCalls, appended>>
    /\ UNCHANGED syncVars
    /\ UNCHANGED <<mainSession, traceQueue, flushRef, flushTimers>>
    /\ UNCHANGED dbVars
    /\ UNCHANGED mirrorVars

\* persistMessage resolves: startStream is called; the subscriber sees the
\* reset (the list does not grow) and then the 'Using ... backend' entry
PersistResolves ==
    /\ taskPc = "persisting"
    /\ taskPc' = "done"
    /\ StartBody
    /\ SetAppState(AppSubscriber(mainSession, AppState, <<>>, agent'.traces))
    /\ lastOp' = Op("persistResolves")
    /\ UNCHANGED <<stopCalls, appended>>
    /\ UNCHANGED syncVars
    /\ UNCHANGED mainSession
    /\ UNCHANGED dbVars
    /\ UNCHANGED mirrorVars

\* persistMessage rejects: the rejection leaves handleStartTask
PersistRejects ==
    /\ taskPc = "persisting"
    /\ taskPc' = "failed"
    /\ lastOp' = Op("persistRejects")
    /\ UNCHANGED storeVars
    /\ UNCHANGED <<abortRef, pc, messageId, wire, buffer, clock, handed, received,
                   statusLog, stopCalls, appended>>
    /\ UNCHANGED syncVars
    /\ UNCHANGED <<mainSession, traceQueue, flushRef, flushTimers>>
    /\ UNCHANGED dbVars
    /\ UNCHANGED mirrorVars

\* an addTrace call on the store, seen by the subscriber
AppAddTrace ==
    /\ clock < MaxAppTraces
    /\ clock' = clock + 1
    /\ agent' = addTrace(agent, Trace("entry", "start", clock', <<>>, Undefined))
    /\ SetAppState(AppSubscriber(mainSession, AppState, agent.traces,
                                 agent'.traces))
    /\ lastOp' = Op("addTrace")
    /\ UNCHANGED <<chat, progressRef>>
    /\ UNCHANGED <<abortRef, pc, messageId, wire, buffer, handed, received,
                   statusLog, stopCalls, appended>>
    /\ UNCHANGED syncVars
    /\ UNCHANGED <<mainSession, taskPc>>
    /\ UNCHANGED dbVars
    /\ UNCHANGED mirrorVars

\* variant: the batch is taken from the end of the queue
FlushTakeLast(queue) ==
    [batch |-> SubSeq(queue, Len(queue) - Min(FlushBatch, Len(queue)) + 1,
                      Len(queue)),
     rest  |-> SubSeq(queue, 1, Len(queue) - Min(FlushBatch, Len(queue)))]

\* toFlush = traceQueueRef.current.splice(0, 5)
FlushTake(queue) ==
    [batch |-> SubSeq(queue, 1, Min(FlushBatch, Len(queue))),
     rest  |-> SubSeq(queue, Min(FlushBatch, Len(queue)) + 1, Len(queue))]

\* persistTrace for each entry of a batch, in order
PersistBatch(session, batch) ==
    [i \in 1..Len(batch) |-> AppWrite(session, "traces.add", batch[i])]

\* a pending setTimeout(flushTraces) fires
FlushTimer ==
    /\ \E t \in flushTimers :
          IF traceQueue = <<>> \/ mainSession = 0
          THEN /\ flushTimers' = flushTimers \ {t}
               /\ UNCHANGED <<traceQueue, flushRef, remote>>
          ELSE LET taken == FlushTake(traceQueue)
               IN  /\ traceQueue' = taken.rest
                   /\ remote' = remote \o PersistBatch(mainSession, taken.batch)
                   /\ IF taken.rest # <<>>
                      THEN /\ flushRef' = flushRef + 1
                           /\ flushTimers' = (flushTimers \ {t}) \cup {flushRef + 1}
                      ELSE /\ flushRef' = flushRef
                           /\ flushTimers' = flushTimers \ {t}
    /\ lastOp' = Op("flushTraces")
    /\ UNCHANGED storeVars
    /\ UNCHANGED <<abortRef, pc, messageId, wire, buffer, clock, handed, received,
                   statusLog, stopCalls, appended>>
    /\ UNCHANGED <<sessionRef, timers, timeoutId, nextTimer, prev, bursts>>
    /\ UNCHANGED <<mainSession, taskPc>>
    /\ UNCHANGED dbVars
    /\ UNCHANGED mirrorVars

\* handleNewSession, pressed while a session is shown; the subscriber sees
\* the reset (the list does not grow)
HandleNewSession ==
    /\ mainSession # 0
    /\ mainSession' = 0
    /\ chat' = clearMessages(chat)
    /\ agent' = reset(agent, clock)
    /\ lastOp' = Op("handleNewSession")
    /\ UNCHANGED progressRef
    /\ UNCHANGED <<abortRef, pc, messageId, wire, buffer, clock, handed, received,
                   statusLog, stopCalls, appended>>
    /\ UNCHANGED syncVars
    /\ UNCHANGED <<traceQueue, flushRef, flushTimers, taskPc>>
    /\ UNCHANGED dbVars
    /\ UNCHANGED mirrorVars

FlushNext ==
    \/ HandleStartTask
    \/ CreateResolves
    \/ CreateRejects
    \/ PersistResolves
    \/ PersistRejects
    \/ AppAddTrace
    \/ FlushTimer
    \/ HandleNewSession

SpecFlush == Init /\ [][FlushNext]_vars

\* a timer that is pending does fire
SpecFlushFair == SpecFlush /\ WF_vars(FlushTimer)

\* the entries of the append-trace writes issued, in order
IssuedTraces == Written(remote, "traces.add")

\* C11: while the session is active, an entry waiting in the outbound buffer
\* is eventually issued as an append-trace write (it leaves the buffer only
\* through persistTrace), also when it was queued after a flush had drained
\* the buffer.
C11_EventualDelivery ==
    (mainSession # 0 /\ traceQueue # <<>>)
        ~> (traceQueue = <<>> \/ mainSession = 0)

\* C13: the append-trace writes issued, followed by the entries still queued,
\* are in the order in which the entries were appended to the trace list
\* (an entry's timestamp is the clock reading of its addTrace call).
C13_FIFO ==
    LET out == IssuedTraces \o traceQueue
    IN  \A i \in 1..Len(out) : \A j \in (i + 1)..Len(out) :
            out[i].timestamp < out[j].timestamp

\* two batches issued: a full one and the entry it left behind
C13_Witness ==
    /\ Len(IssuedTraces) = FlushBatch + 1
    /\ lastOp = Op("flushTraces")
    /\ flushRef = 2

\* C15: when handleStartTask is over, whether or not one of its remote writes
\* failed, the event stream has been started.
C15_WriteFailureNotFatal ==
    taskPc \in {"done", "failed"} => pc # "idle"

----------------------------------------------------------------------------
(* useConvexSession with the store driven directly: SpecSession starts and *)
(* ends the session, calls the store operations the reducer calls (each    *)
(* seen at once by the subscriber), persistMessage and persistTrace, and   *)
(* lets the debounce timers fire.  Each call is one reading of the clock.  *)

\* updateSessionStatus has been issued for the session
Ended == \E i \in 1..Len(remote) : remote[i].op = "updateStatus"

\* a store operation with result s, and the subscriber's reaction to it
SessionStore(s, name) ==
    /\ clock < MaxSessionOps
    /\ clock' = clock + 1
    /\ agent' = s
    /\ Subscriber(agent')
    /\ lastOp' = Op(name)
    /\ UNCHANGED <<sessionRef, chat, progressRef, appended>>
    /\ UNCHANGED <<abortRef, pc, messageId, wire, buffer, handed, received,
                   statusLog, stopCalls>>
    /\ UNCHANGED appVars
    /\ UNCHANGED dbVars
    /\ UNCHANGED mirrorVars

\* a call that at most issues one remote write
SessionCall(writes, name) ==
    /\ clock < MaxSessionOps
    /\ clock' = clock + 1
    /\ remote' = IF sessionRef = 0 THEN remote ELSE remote \o writes
    /\ lastOp' = Op(name)
    /\ UNCHANGED <<sessionRef, timers, timeoutId, nextTimer, prev, bursts>>
    /\ UNCHANGED storeVars
    /\ UNCHANGED <<appended, abortRef, pc, messageId, wire, buffer, handed,
                   received, statusLog, stopCalls>>
    /\ UNCHANGED appVars
    /\ UNCHANGED dbVars
    /\ UNCHANGED mirrorVars

EndSession == SessionCall(<<Write("updateStatus", "completed")>>, "endSession")

PersistMessage == SessionCall(<<Write("messages.add", "text")>>, "persistMessage")

PersistTrace == SessionCall(<<Write("traces.add", "entry")>>, "persistTrace")

SessSetIteration ==
    \E v \in {1, 2} : SessionStore(setIteration(agent, v), "setIteration")

SessSetHealth ==
    \E v \in {"degraded", "critical"} :
        SessionStore(setGlobalHealth(agent, v), "setGlobalHealth")

SessSetBoosted == SessionStore(setBoosted(agent, TRUE), "setBoosted")

SessAddScore == SessionStore(addScore(agent, Num(72)), "addScore")

SessSetDraft ==
    \E v \in {"draft1", "draft2"} :
        SessionStore(setCurrentDraft(agent, v), "setCurrentDraft")

SessSetDiagram == SessionStore(setDiagram(agent, "graph1"), "setDiagram")

SessReset == SessionStore(reset(agent, clock + 1), "reset")

SessionNext ==
    \/ StartSession
    \/ EndSession
    \/ PersistMessage
    \/ PersistTrace
    \/ SessSetIteration
    \/ SessSetHealth
    \/ SessSetBoosted
    \/ SessAddScore
    \/ SessSetDraft
    \/ SessSetDiagram
    \/ SessReset
    \/ TimerFire

SpecSession == Init /\ [][SessionNext]_vars

\* C12: with the session active and no callback pending, the score that
\* addScore has just appended has been issued as a score record of the
\* session.
C12_ScoresMirrored ==
    (sessionRef # 0 /\ ~Ended /\ timers = {} /\ lastOp = Op("addScore"))
        => \E i \in 1..Len(remote) :
              /\ remote[i].op = "scores.add"
              /\ remote[i].id = sessionRef
              /\ remote[i].value = agent.scores[Len(agent.scores)]

\* C14: a remote write is issued only while a session is active: one has
\* been started and has not been ended.
C14_NoWriteWithoutSession ==
    [][remote' # remote => (sessionRef # 0 /\ ~Ended)]_vars

\* the step appends to the writes of operation op exactly the value v
Patched(op, v) == Written(remote', op) = Append(Written(remote, op), v)

\* C16: while the session is active, a step that changes the iteration, the
\* health or the boosted flag of the store issues, in that step, exactly one
\* patch of that field carrying the new value.
C16_ImmediatePatch ==
    [][(sessionRef # 0 /\ ~Ended) =>
          /\ agent'.iteration # agent.iteration
                => Patched("updateIteration", agent'.iteration)
          /\ agent'.globalHealth # agent.globalHealth
                => Patched("updateHealth", agent'.globalHealth)
          /\ agent'.isBoosted # agent.isBoosted
                => Patched("setBoosted", agent'.isBoosted)]_vars

----------------------------------------------------------------------------
(* Order of the debounced writes, under SpecDebounce *)

\* a is b with some entries left out
RECURSIVE IsSubseq(_, _)
IsSubseq(a, b) ==
    IF a = <<>> THEN TRUE
    ELSE IF b = <<>> THEN FALSE
    ELSE IF Head(a) = Head(b) THEN IsSubseq(Tail(a), Tail(b))
    ELSE IsSubseq(a, Tail(b))

\* the values field f of the store took, as handed to the debouncer
Taken(f) == IF bursts[f] = <<>> THEN <<>> ELSE Concat(bursts[f])

----------------------------------------------------------------------------
(* Starting again: SpecRestart calls startStream once more after a run has *)
(* returned (its stream ended, failed or was cancelled).  Each read takes  *)
(* all the body holds.                                                     *)

\* the bodies served in the restart specification
RestartStreams == {Scenario, IterationScenario, Ev("U") \o Ev("C")}

RestartFetch == FetchFrom(RestartStreams)

\* reader.read() resolves with everything the server has sent
ReadBody == ReadN(Len(wire))

\* startStream called after the previous call has returned
Restart ==
    /\ pc = "returned"
    /\ Len(chat.messages) < MaxRuns
    /\ StartBody
    /\ lastOp' = OpArg("startStream", "again")
    /\ UNCHANGED <<stopCalls, appended>>
    /\ UNCHANGED syncVars
    /\ UNCHANGED appVars
    /\ UNCHANGED dbVars
    /\ UNCHANGED mirrorVars

RestartNext ==
    \/ StartStream
    \/ Restart
    \/ RestartFetch
    \/ FetchFail
    \/ ReadBody
    \/ ReadDone
    \/ ReadError
    \/ StopStream
    \/ AbortRejected

SpecRestart == Init /\ [][RestartNext]_vars

----------------------------------------------------------------------------
(* The end of a run, under Spec *)

\* a run-end event has been handed to handleEvent
RunEndSeen == \E i \in 1..Len(handed) : handed[i].event = "run_end"

C19_EndedState ==
    lastOp = Op("readDone") =>
        /\ pc = "returned"
        /\ ~agent.isRunning
        /\ agent.activeNode = "null"
        /\ ~chat.isStreaming

C19_DecodingStops ==
    pc = "returned" => (received' = received /\ handed' = handed)

\* C19: when the body reports end-of-input the run is over, with running
\* false and no active node, whatever events came before, and from then on
\* nothing more is read or decoded.
C19_EndOfInput == [](C19_EndedState) /\ [][C19_DecodingStops]_vars

\* the body ended after a node-start and nothing else: no run-end event, a
\* node still in status running
C19_Witness ==
    /\ lastOp = Op("readDone")
    /\ handed = <<EventOf.C>>
    /\ agent.nodes["judge"].status = "running"
    /\ agent.activeNode = "null"

\* C20: once a run-end event has been observed, no further event of the
\* stream is handed to the reducer, running stays false and the active node
\* stays cleared.
C20_StopsAfterRunEnd ==
    [][(RunEndSeen /\ messageId' = messageId) =>
          /\ handed' = handed
          /\ ~agent'.isRunning
          /\ agent'.activeNode = "null"]_vars

----------------------------------------------------------------------------
(* The two ways a run fails: cancelled, or a transport error *)

\* the content of the assistant message the run streams into
AssistantContent == chat.messages[messageId].content

\* the terminal state the `catch` of startStream leaves
AbortedState ==
    /\ pc = "returned"
    /\ ~agent.isRunning
    /\ ~chat.isStreaming
    /\ agent.globalHealth = "critical"

\* C21: when a run that was cancelled while connecting or while reading
\* returns, it is aborted: not running, health critical, and the assistant
\* message holds the cancellation text instead of what had been streamed.
C21_CancelFinalized ==
    lastOp.op = "abortRejected" =>
        AbortedState /\ AssistantContent = CancelledText

\* a run cancelled after a token had been streamed into the message
C21_Witness ==
    /\ lastOp.op = "abortRejected"
    /\ \E i \in 1..Len(handed) : handed[i].event = "token"

\* C22: a run that ends by a transport error (the fetch rejects, the response
\* is not ok or has no body, a read rejects) is aborted: not running, health
\* critical, and the assistant message holds an error text that is not the
\* cancellation text.
C22_TransportError ==
    lastOp.op \in {"fetchFail", "readError"} =>
        /\ AbortedState
        /\ \E reason \in {"network", "http", "no body"} :
              AssistantContent = ErrorText(reason)
        /\ AssistantContent # CancelledText

\* a read failed after an event had been applied
C22_Witness ==
    /\ lastOp.op = "readError"
    /\ handed # <<>>
----------------------------------------------------------------------------
(* Every run returns: the hook under the fairness of the transport *)

\* a line that decodes to an event handleEvent throws on
ThrowingStream == Concat(<<Ev("B"), Malformed, Ev("Z"), Ev("E")>>)

\* a body that ends at once, one with a malformed and a throwing line, one
\* that goes on after its run_end
LiveStreams == {<<>>, ThrowingStream, Ev("U") \o Ev("C")}

LiveFetch == FetchFrom(LiveStreams)

LiveNext ==
    \/ StartStream
    \/ LiveFetch
    \/ FetchFail
    \/ ReadChunk
    \/ ReadDone
    \/ ReadError
    \/ StopStream
    \/ AbortRejected

\* the transport ends or fails: a pending fetch settles, the body reaches
\* its end or a read fails, and an aborted signal rejects what is pending
SpecLive ==
    /\ Init
    /\ [][LiveNext]_vars
    /\ WF_vars(LiveFetch \/ FetchFail)
    /\ WF_vars(ReadDone \/ ReadError)
    /\ WF_vars(AbortRejected)

\* C23: a started run eventually returns with running false, whatever the
\* stream does (ends, fails to connect, fails mid-read, is cancelled, carries
\* malformed or throwing lines), and a run that has returned is never
\* left running.
C23_AlwaysTerminates ==
    /\ [](pc = "returned" => ~agent.isRunning)
    /\ (pc \in {"fetch", "read"}) ~> (pc = "returned" /\ ~agent.isRunning)

\* the run whose body carried the malformed and the throwing line returned
\* after reading all of it
C23_Witness ==
    /\ pc = "returned"
    /\ received = ThrowingStream
    /\ ~agent.isRunning
----------------------------------------------------------------------------
(* convex/sessions.ts: remove, over the tables of convex/schema.ts *)

MaxRows == 5

\* the tables whose rows carry a sessionId, in the order remove visits them
ChildTables == <<"messages", "traces", "nodeStates", "scores", "reflections">>

Row(table, id, sessionId) == [table |-> table, id |-> id, sessionId |-> sessionId]

\* ctx.db.query(table).withIndex("by_session", q => q.eq("sessionId", id))
BySession(rows, table, id) ==
    {r \in rows : r.table = table /\ r.sessionId = id}

\* .collect(): the rows in the order of their creation
RECURSIVE Collect(_)
Collect(rows) ==
    IF rows = {} THEN <<>>
    ELSE LET first == CHOOSE r \in rows : \A q \in rows : r.id <= q.id
         IN  <<first>> \o Collect(rows \ {first})

\* variant: remove does not visit the scores table
RemoveOrderNoScores(rows, id) ==
    Concat([i \in 1..3 |->
               Collect(BySession(rows, <<"messages", "traces", "nodeStates">>[i], id))])
        \o Collect(BySession(rows, "reflections", id))
        \o <<Row("sessions", id, id)>>

\* the rows remove passes to ctx.db.delete, in order
RemoveOrder(rows, id) ==
    Concat([i \in 1..Len(ChildTables) |->
               Collect(BySession(rows, ChildTables[i], id))])
        \o <<Row("sessions", id, id)>>

Sessions(rows) == {r \in rows : r.table = "sessions"}

Range(seq) == {seq[i] : i \in 1..Len(seq)}

\* sessions.create
SessionsCreate ==
    /\ rowCount < MaxRows
    /\ rowCount' = rowCount + 1
    /\ db' = db \cup {Row("sessions", rowCount + 1, rowCount + 1)}
    /\ lastOp' = Op("sessions.create")
    /\ UNCHANGED removal
    /\ UNCHANGED storeVars
    /\ UNCHANGED <<abortRef, pc, messageId, wire, buffer, clock, handed, received,
                   statusLog, stopCalls, appended>>
    /\ UNCHANGED syncVars
    /\ UNCHANGED appVars
    /\ UNCHANGED mirrorVars

\* ctx.db.insert(table, {sessionId, ...}) for a session that exists
Insert(table) ==
    /\ rowCount < MaxRows
    /\ \E session \in Sessions(db) :
          db' = db \cup {Row(table, rowCount + 1, session.id)}
    /\ rowCount' = rowCount + 1
    /\ lastOp' = OpArg("insert", table)
    /\ UNCHANGED removal
    /\ UNCHANGED storeVars
    /\ UNCHANGED <<abortRef, pc, messageId, wire, buffer, clock, handed, received,
                   statusLog, stopCalls, appended>>
    /\ UNCHANGED syncVars
    /\ UNCHANGED appVars
    /\ UNCHANGED mirrorVars

\* messages.add
MessagesAdd == Insert("messages")

\* traces.add
TracesAdd == Insert("traces")

\* rows of the tables that no function shown writes
OtherInsert == \E table \in {"nodeStates", "scores", "reflections"} : Insert(table)

\* sessions.remove, one transaction
SessionsRemove ==
    /\ \E session \in Sessions(db) :
          LET order == RemoveOrder(db, session.id)
          IN  /\ db' = db \ Range(order)
              /\ removal' = [id |-> session.id, deleted |-> order]
    /\ lastOp' = Op("sessions.remove")
    /\ UNCHANGED rowCount
    /\ UNCHANGED storeVars
    /\ UNCHANGED <<abortRef, pc, messageId, wire, buffer, clock, handed, received,
                   statusLog, stopCalls, appended>>
    /\ UNCHANGED syncVars
    /\ UNCHANGED appVars
    /\ UNCHANGED mirrorVars

RemoveNext ==
    \/ SessionsCreate
    \/ MessagesAdd
    \/ TracesAdd
    \/ OtherInsert
    \/ SessionsRemove

SpecRemove == Init /\ [][RemoveNext]_vars

\* C24: a remove of session id deletes every row of the five child tables
\* whose sessionId is id and then the session row, the session row last;
\* it deletes nothing else, so the rows of other sessions stay as they were.
C24_Cascade ==
    [][lastOp'.op = "sessions.remove" =>
        LET id      == removal'.id
            deleted == removal'.deleted
        IN  /\ \A r \in db' : r.sessionId # id
            /\ db' = {r \in db : r.sessionId # id}
            /\ deleted[Len(deleted)] = Row("sessions", id, id)
            /\ \A i \in 1..(Len(deleted) - 1) : deleted[i].table # "sessions"
            /\ Range(deleted) = {r \in db : r.sessionId = id}
            /\ Len(deleted) = Cardinality(Range(deleted))]_vars

\* a session with rows in two child tables, one of them scores, was removed
\* while another session kept a row
C24_Witness ==
    /\ lastOp.op = "sessions.remove"
    /\ Len(removal.deleted) >= 3
    /\ \E i \in 1..Len(removal.deleted) : removal.deleted[i].table = "scores"
    /\ \E r \in db : r.table # "sessions"
----------------------------------------------------------------------------
(* Who writes the store *)

\* a step changes the node map, the trace list or the running flag
RunStateWritten ==
    \/ agent'.nodes # agent.nodes
    \/ agent'.traces # agent.traces
    \/ agent'.isRunning # agent.isRunning

\* C25: every step that changes nodes, traces or run fields is a step of the
\* reducer applying a stream event; no other component writes them.  The
\* start of a run by the lifecycle controller is let through here, so a
\* step that fails this fails the claim all the more.
C25_OnlyReducerWrites ==
    [][RunStateWritten => lastOp'.op \in {"addTrace", "persistResolves"}]_vars
----------------------------------------------------------------------------
(* Node bookkeeping under the events of a stream *)

\* C26: in every state of a run metrics.nodesCompleted is the number of
\* nodes whose status is success or error.
C26_CompletedMatchesNodes ==
    agent.metrics.nodesCompleted = CountTerminal(agent.nodes)
----------------------------------------------------------------------------
(* One run of flushTraces *)

\* the writes a step issues
IssuedBy == SubSeq(remote', Len(remote) + 1, Len(remote'))

\* a step schedules a flush
SchedulesFlush == flushTimers' \ flushTimers # {}

\* C27: each run of flushTraces issues at most 5 trace writes, for the
\* entries at the head of the queue, removes exactly those from the queue,
\* and schedules another run if and only if the queue is not empty afterwards.
C27_FlushCycle ==
    [][lastOp'.op = "flushTraces" =>
        LET n == Len(IssuedBy)
        IN  /\ n <= FlushBatch
            /\ IssuedBy = PersistBatch(mainSession, SubSeq(traceQueue, 1, n))
            /\ traceQueue' = SubSeq(traceQueue, n + 1, Len(traceQueue))
            /\ SchedulesFlush <=> traceQueue' # <<>>]_vars
----------------------------------------------------------------------------
(* What a node_end leaves *)

\* the event applied last
LastHanded == handed[Len(handed)]

\* the newest entry of the trace list
NewestTrace == agent.traces[Len(agent.traces)]

\* the last event applied is a node_end that names a node
AfterNodeEnd ==
    /\ handed # <<>>
    /\ LastHanded.event = "node_end"
    /\ LastHanded.data.name # ""

\* C28: after a node_end naming node n, n has status success, an end time
\* and the output of that event as its output, and the newest trace entry
\* is the end entry of n carrying that output.
C28_NodeEndApplied ==
    AfterNodeEnd =>
        LET n      == LastHanded.data.name
            output == LastHanded.data.output
        IN  /\ n \in DOMAIN agent.nodes
            /\ agent.nodes[n].status = "success"
            /\ agent.nodes[n].endTime # 0
            /\ agent.nodes[n].output = output
            /\ NewestTrace.nodeId = n
            /\ NewestTrace.event = "end"
            /\ NewestTrace.payload = output
----------------------------------------------------------------------------
(* The node operations of the store under a clock that moves *)

MaxTicks == 3

\* trace entries appended in a run after the list is full
MaxPast == 3

\* remote writes after which the live trace query delivers no more results
MaxRemote == 10

TimedNodes == {"entry", "judge"}

\* NodeStatus
AllStatuses == {"pending", "running", "success", "error", "skipped"}

\* updateNode with any status; `new Date()` reads a later time at each call
UpdateNodeAt ==
    /\ clock < MaxTicks
    /\ clock' = clock + 1
    /\ \E n \in TimedNodes, st \in AllStatuses :
          /\ agent' = updateNode(agent, n, st, Undefined, clock + 1)
          /\ lastOp' = OpArg("updateNode", st)
    /\ UNCHANGED <<chat, progressRef, appended>>
    /\ UNCHANGED <<abortRef, pc, messageId, wire, buffer, handed, received,
                   statusLog, stopCalls>>
    /\ UNCHANGED syncVars
    /\ UNCHANGED appVars
    /\ UNCHANGED dbVars
    /\ UNCHANGED mirrorVars

SetTaskAt ==
    /\ \E n \in TimedNodes : agent' = setNodeTask(agent, n, "task1")
    /\ lastOp' = Op("setNodeTask")
    /\ UNCHANGED clock
    /\ UNCHANGED <<chat, progressRef, appended>>
    /\ UNCHANGED <<abortRef, pc, messageId, wire, buffer, handed, received,
                   statusLog, stopCalls>>
    /\ UNCHANGED syncVars
    /\ UNCHANGED appVars
    /\ UNCHANGED dbVars
    /\ UNCHANGED mirrorVars

SetFeedbackAt ==
    /\ \E n \in TimedNodes : agent' = setNodeFeedback(agent, n, "feedback1")
    /\ lastOp' = Op("setNodeFeedback")
    /\ UNCHANGED clock
    /\ UNCHANGED <<chat, progressRef, appended>>
    /\ UNCHANGED <<abortRef, pc, messageId, wire, buffer, handed, received,
                   statusLog, stopCalls>>
    /\ UNCHANGED syncVars
    /\ UNCHANGED appVars
    /\ UNCHANGED dbVars
    /\ UNCHANGED mirrorVars

NodeTimeNext == UpdateNodeAt \/ SetTaskAt \/ SetFeedbackAt

SpecNodeTime == Init /\ [][NodeTimeNext]_vars

\* a node whose status is running has no end time
RunningHasNoEnd ==
    \A n \in DOMAIN agent.nodes :
        agent.nodes[n].status = "running" => agent.nodes[n].endTime = 0

\* a node that has a start time has one after the step
StartTimeKept ==
    \A n \in DOMAIN agent.nodes :
        agent.nodes[n].startTime # 0 =>
            n \in DOMAIN agent'.nodes /\ agent'.nodes[n].startTime # 0

\* C29: no updateNode, setNodeTask or setNodeFeedback call clears the start
\* time of a node that has one, and in every state a running node has no
\* end time.
C29_NodeTimes == [][StartTimeKept]_vars /\ []RunningHasNoEnd

\* a node that ran and ended, with a task and a feedback set since
C29_Witness ==
    /\ "judge" \in DOMAIN agent.nodes
    /\ agent.nodes["judge"].status = "success"
    /\ agent.nodes["judge"].startTime # 0
    /\ agent.nodes["judge"].endTime > agent.nodes["judge"].startTime
    /\ agent.nodes["judge"].currentTask # ""
    /\ agent.nodes["judge"].feedback # ""
----------------------------------------------------------------------------
(* The boosted flag within a run *)

\* the node_end events applied in this run that name a node and carry
\* is_boosted = true
BoostEvents ==
    {i \in 1..Len(handed) :
        /\ handed[i].event = "node_end"
        /\ handed[i].data.name # ""
        /\ handed[i].data.output # Undefined
        /\ handed[i].data.output.is_boosted}

\* the boost entries of the trace list
BoostTraces ==
    {i \in 1..Len(agent.traces) :
        agent.traces[i].message = <<"RECURSIVE BOOST ACTIVATED">>}

\* C30: once a node_end with is_boosted true has been applied the flag stays
\* true for the rest of the run, whatever event follows; only the reset at
\* the start of a run clears it; and the trace list holds one boost entry
\* for each such event.
C30_BoostOneWay ==
    /\ [](BoostEvents # {} => agent.isBoosted)
    /\ [](Cardinality(BoostTraces) = Cardinality(BoostEvents))
    /\ [][agent.isBoosted /\ ~agent'.isBoosted => lastOp'.op = "startStream"]_vars

\* a boosted node_end was followed by a node_end whose flag is false
C30_Witness ==
    /\ agent.isBoosted
    /\ \E i \in BoostEvents :
          \E j \in (i + 1)..Len(handed) :
              /\ handed[j].event = "node_end"
              /\ handed[j].data.output # Undefined
              /\ ~handed[j].data.output.is_boosted
----------------------------------------------------------------------------
(* The reducer one event at a time: the body arrives line by line *)

\* errors with metrics between them
ErrorStream == Concat(<<Ev("T"), Ev("R"), Ev("T"), Ev("S"), Ev("U")>>)

\* an unknown and a custom event, before and after other events
UnknownStream == Concat(<<Ev("W"), Ev("V"), Ev("D"), Ev("T"), Ev("W"), Ev("V")>>)

\* score lists: a number, a non-number last, an infinity last, none
ScoreStream == Concat(<<Ev("D"), Ev("Y"), Ev("a"), Ev("E"), Ev("X")>>)

EventStreams == {ErrorStream, UnknownStream, ScoreStream, Scenario}

EventFetch == FetchFrom(EventStreams)

\* the length of the first line of text, its newline included
FirstLine(text) ==
    CHOOSE i \in 1..Len(text) :
        text[i] = NL /\ \A j \in 1..(i - 1) : text[j] # NL

\* reader.read() resolves with one whole line
ReadLine ==
    /\ wire # <<>>
    /\ ReadN(FirstLine(wire))

EventsNext ==
    \/ StartStream
    \/ Restart
    \/ EventFetch
    \/ ReadLine
    \/ ReadDone
    \/ StopStream
    \/ AbortRejected

SpecEvents == Init /\ [][EventsNext]_vars

\* the step hands one event to handleEvent
Applies == Len(handed') = Len(handed) + 1

\* that event
Applied == handed'[Len(handed')]

\* the step is the reset at the start of a run
Resets == lastOp'.op = "startStream"

ErrorEvents == {i \in 1..Len(handed) : handed[i].event = "error"}

\* C31: metrics.errorCount is the number of error events applied since the
\* reset at the start of the run and decreases only by that reset; an error
\* event sets health to critical and appends one error trace entry whose
\* payload is the data of the event.
C31_ErrorCount ==
    /\ [](agent.metrics.errorCount = Cardinality(ErrorEvents))
    /\ [][agent'.metrics.errorCount >= agent.metrics.errorCount \/ Resets]_vars
    /\ [][(Applies /\ Applied.event = "error") =>
            /\ agent'.globalHealth = "critical"
            /\ agent'.metrics.errorCount = agent.metrics.errorCount + 1
            /\ Len(agent'.traces) = Len(agent.traces) + 1
            /\ agent'.traces[Len(agent'.traces)].nodeId = "system"
            /\ agent'.traces[Len(agent'.traces)].event = "error"
            /\ agent'.traces[Len(agent'.traces)].payload = Applied.data]_vars

\* two error events were applied in the run, a metrics event between them
C31_Witness ==
    /\ agent.metrics.errorCount = 2
    /\ agent.metrics.totalTokens = 10
    /\ agent.globalHealth = "critical"
\* C32: a metrics event replaces the token count and the thought count it
\* carries and keeps the one it does not carry; errorCount, nodesCompleted,
\* nodesTotal and everything outside the metrics stay as they were.
C32_MetricsFrame ==
    [][(Applies /\ Applied.event = "metrics") =>
        LET data == Applied.data
        IN  /\ agent' = [agent EXCEPT
                           !.metrics.totalTokens =
                               IF data.tokens # -1 THEN data.tokens ELSE @,
                           !.metrics.thoughtCount =
                               IF data.thoughts # -1 THEN data.thoughts ELSE @]
            /\ chat' = chat
            /\ progressRef' = progressRef]_vars

\* a thought count arrived after a token count and two errors
C32_Witness ==
    /\ agent.metrics.thoughtCount = 2
    /\ agent.metrics.totalTokens = 10
    /\ agent.metrics.errorCount = 2
    /\ handed # <<>>
    /\ handed[Len(handed)].event = "metrics"
\* the case labels of the switch in handleEvent
Cases == {"run_start", "node_start", "node_end", "token", "thought",
          "draft_update", "progress", "web_search_start", "web_search_result",
          "web_search_end", "interaction_start", "metrics", "error", "run_end"}

\* C33: an event whose type is no case of the switch and does not start with
\* 'custom_' leaves the whole state unchanged; one whose type starts with
\* 'custom_' appends exactly one custom trace entry on the system node, with
\* the data of the event as payload, and changes nothing else.
C33_DefaultCase ==
    [][(Applies /\ Applied.event \notin Cases) =>
        IF Applied.event \in DOMAIN CUSTOM
        THEN LET n == Len(agent.traces)
             IN  /\ [agent' EXCEPT !.traces = agent.traces] = agent
                 /\ Len(agent'.traces) = n + 1
                 /\ SubSeq(agent'.traces, 1, n) = agent.traces
                 /\ agent'.traces[n + 1].nodeId = "system"
                 /\ agent'.traces[n + 1].event = "custom"
                 /\ agent'.traces[n + 1].message = <<CUSTOM[Applied.event]>>
                 /\ agent'.traces[n + 1].payload = Applied.data
                 /\ chat' = chat
                 /\ progressRef' = progressRef
        ELSE /\ agent' = agent
             /\ chat' = chat
             /\ progressRef' = progressRef]_vars

\* an unknown event and a custom event were applied twice each, with a node
\* start and an error between them
C33_Witness ==
    /\ Len(handed) = 6
    /\ handed[5].event = "heartbeat"
    /\ handed[6].event = "custom_note"
    /\ Cardinality({i \in 1..Len(agent.traces) :
                       agent.traces[i].message = <<"note">>}) = 2
    /\ agent.metrics.errorCount = 1
\* the last element of the score list of a node_end event, if it has one
HasScores(ev) ==
    /\ ev.event = "node_end"
    /\ ev.data.output # Undefined
    /\ Len(ev.data.output.scores) > 0

LastScore(ev) == ev.data.output.scores[Len(ev.data.output.scores)]

\* Number.isFinite(x), for a JSON value x tagged with its type
IsFinite(x) == x.t = "number"

\* C34: a node_end event whose score list ends in a value that is not a
\* finite number leaves the score sequence unchanged.
C34_NonFiniteIgnored ==
    [][(Applies /\ HasScores(Applied) /\ ~IsFinite(LastScore(Applied))) =>
        agent'.scores = agent.scores]_vars
\* C35: within a run the score sequence only grows at its end: a step keeps
\* it, or applies a node_end event with a score list and appends the last
\* element of that list; an event without a score list leaves it unchanged.
\* Only the reset at the start of a run empties it.
C35_ScoresAppendOnly ==
    /\ [][\/ agent'.scores = agent.scores
           \/ (Resets /\ agent'.scores = <<>>)
           \/ /\ Applies
              /\ HasScores(Applied)
              /\ agent'.scores = Append(agent.scores, LastScore(Applied))]_vars
    /\ [][(Applies /\ ~HasScores(Applied)) => agent'.scores = agent.scores]_vars

\* two node_end events appended a score each, one whose list ends in a
\* string appended none, and the last event applied had no score list
C35_Witness ==
    /\ Len(agent.scores) >= 2
    /\ agent.scores[1] = Num(72)
    /\ \E i \in 1..Len(handed) :
           HasScores(handed[i]) /\ LastScore(handed[i]).t = "string"
    /\ ~HasScores(handed[Len(handed)])
----------------------------------------------------------------------------
(* The task of a node and its status *)

NodeTasks == {"task1", "task2"}

\* updateNode with an output, as the node_end case calls it
UpdateNodeOut ==
    /\ clock < MaxTicks
    /\ clock' = clock + 1
    /\ \E n \in TimedNodes, st \in {"success", "error"} :
          /\ agent' = updateNode(agent, n, st, EventOf["D"].data.output, clock + 1)
          /\ lastOp' = OpArg("updateNode", st)
    /\ UNCHANGED <<chat, progressRef, appended>>
    /\ UNCHANGED <<abortRef, pc, messageId, wire, buffer, handed, received,
                   statusLog, stopCalls>>
    /\ UNCHANGED syncVars
    /\ UNCHANGED appVars
    /\ UNCHANGED dbVars
    /\ UNCHANGED mirrorVars

SetTaskTo ==
    /\ \E n \in TimedNodes, task \in NodeTasks :
          /\ agent' = setNodeTask(agent, n, task)
          /\ lastOp' = OpArg("setNodeTask", task)
    /\ UNCHANGED clock
    /\ UNCHANGED <<chat, progressRef, appended>>
    /\ UNCHANGED <<abortRef, pc, messageId, wire, buffer, handed, received,
                   statusLog, stopCalls>>
    /\ UNCHANGED syncVars
    /\ UNCHANGED appVars
    /\ UNCHANGED dbVars
    /\ UNCHANGED mirrorVars

NodeTaskNext == UpdateNodeAt \/ UpdateNodeOut \/ SetTaskTo \/ SetFeedbackAt

SpecNodeTask == Init /\ [][NodeTaskNext]_vars

\* the node as the store reads it: a missing node is a pending one
NodeOr(s, n) == IF n \in DOMAIN s.nodes THEN s.nodes[n] ELSE PendingNode(n)

\* C36: an updateNode call, whatever its status, leaves the task and the
\* feedback of every node as they were; a setNodeTask call changes the
\* currentTask of one node and nothing else: its status, start time, end
\* time, output and feedback stay (those of a pending node if it did not
\* exist), as do all other nodes and the rest of the store.
C36_TaskIndependent ==
    /\ [][lastOp'.op = "updateNode" =>
            \A n \in TimedNodes :
                /\ NodeOr(agent', n).currentTask = NodeOr(agent, n).currentTask
                /\ NodeOr(agent', n).feedback = NodeOr(agent, n).feedback]_vars
    /\ [][lastOp'.op = "setNodeTask" =>
            \E n \in TimedNodes :
                /\ n \in DOMAIN agent'.nodes
                /\ agent'.nodes[n].currentTask = lastOp'.arg
                /\ [agent'.nodes[n] EXCEPT !.currentTask =
                        NodeOr(agent, n).currentTask] = NodeOr(agent, n)
                /\ \A m \in TimedNodes \ {n} :
                       /\ m \in DOMAIN agent'.nodes <=> m \in DOMAIN agent.nodes
                       /\ NodeOr(agent', m) = NodeOr(agent, m)
                /\ [agent' EXCEPT !.nodes = agent.nodes] = agent]_vars

\* a node got a task while running, ended with an output, and got another
\* task since; the other node exists only because a task was set on it
C36_Witness ==
    /\ DOMAIN agent.nodes = TimedNodes
    /\ agent.nodes["judge"].status = "success"
    /\ agent.nodes["judge"].startTime # 0
    /\ agent.nodes["judge"].endTime > agent.nodes["judge"].startTime
    /\ agent.nodes["judge"].output # Undefined
    /\ agent.nodes["judge"].currentTask = "task2"
    /\ agent.nodes["entry"].status = "pending"
    /\ agent.nodes["entry"].currentTask = "task1"
    /\ lastOp.op = "setNodeTask"
----------------------------------------------------------------------------
(* MainApp with a long run: the trace list of the store fills up *)

\* an addTrace call of the run that handleStartTask started, seen by the
\* subscriber
AppendInRun ==
    /\ taskPc = "done"
    /\ Len(appended) < maxTraces + MaxPast
    /\ clock' = clock + 1
    /\ LET entry == Trace("entry", "start", clock', <<>>, Undefined)
       IN  /\ agent' = addTrace(agent, entry)
           /\ appended' = Append(appended, entry)
    /\ SetAppState(AppSubscriber(mainSession, AppState, agent.traces,
                                 agent'.traces))
    /\ lastOp' = Op("addTrace")
    /\ UNCHANGED <<chat, progressRef>>
    /\ UNCHANGED <<abortRef, pc, messageId, wire, buffer, handed, received,
                   statusLog, stopCalls>>
    /\ UNCHANGED syncVars
    /\ UNCHANGED <<mainSession, taskPc>>
    /\ UNCHANGED dbVars
    /\ UNCHANGED mirrorVars

CapNext ==
    \/ HandleStartTask
    \/ CreateResolves
    \/ PersistResolves
    \/ AppendInRun
    \/ FlushTimer

SpecCap == Init /\ [][CapNext]_vars

\* C37: while a session is active, every trace entry appended to the store
\* is put at the end of the outbound queue, also when the list of the store
\* already holds maxTraces entries.
C37_EnqueuedPastCap ==
    [][(lastOp'.op = "addTrace" /\ mainSession # 0) =>
        traceQueue' = Append(traceQueue, appended'[Len(appended')])]_vars
----------------------------------------------------------------------------
(* MainApp with the live query of the remote traces of the session *)

\* traces.listBySession: the rows that the traces.add writes of the log made
\* for the session, in the order of their creation; _creationTime is the
\* clock of the server, here the position of the write in the log
TraceRows(log, session) ==
    LET idx == {i \in 1..Len(log) :
                   log[i].op = "traces.add" /\ log[i].id = session}
    IN  [k \in 1..Cardinality(idx) |->
            LET i == CHOOSE i \in idx : Cardinality({j \in idx : j < i}) = k - 1
            IN  [nodeId        |-> log[i].value.nodeId,
                 event         |-> log[i].value.event,
                 message       |-> log[i].value.message,
                 payload       |-> log[i].value.payload,
                 creationTime  |-> i]]

\* the entry the effect builds from a row
LoadedTrace(row) ==
    Trace(row.nodeId, row.event, row.creationTime, row.message, row.payload)

\* convexTraces.forEach(trace => addTrace(...)), the subscriber running at
\* each store change; w = [agent, st]
RECURSIVE Replay(_, _, _)
Replay(session, w, rows) ==
    IF rows = <<>> THEN w
    ELSE LET next == addTrace(w.agent, LoadedTrace(Head(rows)))
         IN  Replay(session,
                    [agent |-> next,
                     st    |-> AppSubscriber(session, w.st, w.agent.traces,
                                             next.traces)],
                    Tail(rows))

\* the live query delivers a new result and the effect on convexTraces runs:
\* clearTraces(), then addTrace for every remote trace
TracesLoaded ==
    /\ mainSession # 0
    /\ Len(remote) < MaxRemote
    /\ LET rows    == TraceRows(remote, mainSession)
           cleared == clearTraces(agent)
           w       == Replay(mainSession,
                             [agent |-> cleared,
                              st    |-> AppSubscriber(mainSession, AppState,
                                                      agent.traces,
                                                      cleared.traces)],
                             rows)
       IN  /\ convexTraces # [present |-> TRUE, rows |-> rows]
           /\ convexTraces' = [present |-> TRUE, rows |-> rows]
           /\ agent' = w.agent
           /\ SetAppState(w.st)
    /\ lastOp' = Op("tracesLoaded")
    /\ UNCHANGED <<chat, progressRef>>
    /\ UNCHANGED <<abortRef, pc, messageId, wire, buffer, clock, handed, received,
                   statusLog, stopCalls, appended>>
    /\ UNCHANGED syncVars
    /\ UNCHANGED <<mainSession, taskPc>>
    /\ UNCHANGED dbVars
    /\ UNCHANGED madeIn

ReplayNext ==
    \/ HandleStartTask
    \/ CreateResolves
    \/ PersistResolves
    \/ AppAddTrace
    \/ FlushTimer
    \/ TracesLoaded

SpecReplay == Init /\ [][ReplayNext]_vars

\* C38: loading the traces of the remote mirror into the store enqueues no
\* trace: the outbound queue is the same after the load as before it.
C38_ReplayNotEnqueued ==
    [][lastOp'.op = "tracesLoaded" => traceQueue' = traceQueue]_vars
----------------------------------------------------------------------------
(* MainApp when the user changes session while trace entries are queued *)

\* the sessions of the list the user can select: the one handleStartTask
\* creates and an older one
ListedSessions == {1, 2}

\* handleSelectSession(sessionId); the subscriber sees the reset (the list
\* does not grow)
HandleSelectSession ==
    /\ \E id \in ListedSessions : mainSession' = id
    /\ chat' = clearMessages(chat)
    /\ agent' = reset(agent, clock)
    /\ lastOp' = Op("handleSelectSession")
    /\ UNCHANGED progressRef
    /\ UNCHANGED <<abortRef, pc, messageId, wire, buffer, clock, handed, received,
                   statusLog, stopCalls, appended>>
    /\ UNCHANGED syncVars
    /\ UNCHANGED <<traceQueue, flushRef, flushTimers, taskPc>>
    /\ UNCHANGED dbVars
    /\ UNCHANGED mirrorVars

\* an addTrace call on the store, seen by the subscriber; the session that
\* is current at the call is recorded
AddTraceIn ==
    /\ clock < MaxTicks
    /\ clock' = clock + 1
    /\ agent' = addTrace(agent, Trace("entry", "start", clock', <<>>, Undefined))
    /\ SetAppState(AppSubscriber(mainSession, AppState, agent.traces,
                                 agent'.traces))
    /\ madeIn' = [t \in DOMAIN madeIn \cup {clock'} |->
                     IF t = clock' THEN mainSession ELSE madeIn[t]]
    /\ lastOp' = Op("addTrace")
    /\ UNCHANGED <<chat, progressRef>>
    /\ UNCHANGED <<abortRef, pc, messageId, wire, buffer, handed, received,
                   statusLog, stopCalls, appended>>
    /\ UNCHANGED syncVars
    /\ UNCHANGED <<mainSession, taskPc>>
    /\ UNCHANGED dbVars
    /\ UNCHANGED convexTraces

SwitchNext ==
    \/ HandleStartTask
    \/ CreateResolves
    \/ PersistResolves
    \/ AddTraceIn
    \/ FlushTimer
    \/ HandleSelectSession
    \/ HandleNewSession

SpecSwitch == Init /\ [][SwitchNext]_vars

\* C39: every append-trace write is issued against the session that was
\* current when the trace entry was made: no queued entry is written to a
\* session the user changed to afterwards.
C39_NoCrossSession ==
    [][\A i \in 1..Len(IssuedBy) :
          (/\ IssuedBy[i].op = "traces.add"
           /\ IssuedBy[i].value.timestamp \in DOMAIN madeIn)
          => IssuedBy[i].id = madeIn[IssuedBy[i].value.timestamp]]_vars
----------------------------------------------------------------------------
(* A stream that is being read when the user changes session *)

OverlapNext ==
    \/ StartStream
    \/ EventFetch
    \/ ReadLine
    \/ ReadDone
    \/ StopStream
    \/ AbortRejected
    \/ HandleSelectSession
    \/ HandleNewSession

SpecOverlap == Init /\ [][OverlapNext]_vars

\* the last step reset the stores for a selected or a new session while the
\* body of a stream was being read
JustReset ==
    /\ lastOp.op \in {"handleSelectSession", "handleNewSession"}
    /\ pc = "read"

\* C40: once the stores were reset for a selected or a new session, no event
\* of the stream that was being read at the reset is applied: the step after
\* the reset hands no event to handleEvent and leaves the running flag and
\* the active node as the reset left them.
C40_OneStreamFeeds ==
    [][JustReset =>
        /\ ~Applies
        /\ agent'.isRunning = agent.isRunning
        /\ agent'.activeNode = agent.activeNode]_vars
====
